---- MODULE Spec2Model ----
(***************************************************************************)
(* Verification model of the climatesense-kg caching and work-             *)
(* determination code: the step cache (cache/interface.py,                 *)
(* cache/postgres_cache.py, cache/redis_cache.py), the step-cached         *)
(* enrichment protocol (enrichers/base.py, enrichers/dbpedia_enricher.py)  *)
(* and the pipeline orchestration (pipeline.py).                           *)
(***************************************************************************)
EXTENDS Integers, Sequences, FiniteSets, TLC

(***************************************************************************)
(* Bounds of the model.                                                    *)
(***************************************************************************)
\* number of distinct canonical identifiers ("claim-review/<sha224>")
NumURIs == 2
\* longest identifier list handed to get_many / longest set_many batch
MaxBatch == 2

URIs == 1..NumURIs

\* reserved step name of the processed marker (pipeline.py:216, 236)
MARKER == "pipeline.processed_items"
\* Enricher.step_name of DBpediaEnricher (base.py:25, dbpedia_enricher.py:31)
DBPEDIA == "enricher.dbpedia_spotlight"
StepNames == {MARKER, DBPEDIA}

\* RedisCache.env default
DefaultEnv == "dev"

(***************************************************************************)
(* Python values.  A dict is a function from string keys to atoms; atoms   *)
(* are written as Python writes them.                                      *)
(***************************************************************************)
PyTrue == "True"
PyFalse == "False"
PyNone == "None"

\* payload built by Enricher.cache_success
cache_success_payload(data) == [success |-> PyTrue, data |-> data]

\* payload built by Enricher.cache_error
cache_error_payload(error_type, data) ==
    [success |-> PyFalse, error |-> error_type, data |-> data]

\* payload built by Pipeline._mark_uri_processed
marker_payload(source_name) ==
    [source |-> source_name, rdf_file_path |-> "'out.ttl'"]

\* the "no value" result of a lookup (Python None)
NoDict == [none |-> PyNone]
Miss == [hit |-> FALSE, payload |-> NoDict]
Hit(p) == [hit |-> TRUE, payload |-> p]

\* payloads the cache operations are exercised with
Payloads ==
    { cache_success_payload("'e1'"), cache_success_payload("'e2'"),
      cache_error_payload("'api_error'", "'empty'"), marker_payload("'s1'") }

(***************************************************************************)
(* json.dumps / json.loads (and the JSONB column, which psycopg hands back *)
(* parsed).  A JSON object text is the set of its "key": token members.    *)
(***************************************************************************)
json_token(a) ==
    CASE a = PyTrue  -> <<"literal", "true">>
      [] a = PyFalse -> <<"literal", "false">>
      [] a = PyNone  -> <<"literal", "null">>
      [] OTHER       -> <<"string", a>>

py_atom(t) ==
    IF t[1] = "literal"
    THEN CASE t[2] = "true" -> PyTrue [] t[2] = "false" -> PyFalse [] OTHER -> PyNone
    ELSE t[2]

json_dumps(d) == { <<k, json_token(d[k])>> : k \in DOMAIN d }

json_loads(text) ==
    [ k \in { m[1] : m \in text } |->
        py_atom((CHOOSE m \in text : m[1] = k)[2]) ]

\* bool(payload.get("success", True)) : only False is falsy among the atoms used
payload_success(payload) ==
    IF "success" \in DOMAIN payload THEN payload["success"] # PyFalse ELSE TRUE

(***************************************************************************)
(* CacheInterface                                                          *)
(***************************************************************************)
\* hashlib.sha256(uri.encode()).hexdigest(), taken as injective
sha256(uri) == <<"sha256", uri>>

\* CacheInterface.generate_cache_key(self, uri, step, env): `args` are the
\* positional arguments of the call after self.  A call that does not pass
\* exactly (uri, step, env) raises TypeError.
generate_cache_key(args) ==
    IF Len(args) # 3
    THEN [raised |-> TRUE, key |-> <<>>]
    ELSE [raised |-> FALSE,
          key |-> <<args[3], "climatesense", args[2], sha256(args[1])>>]

\* CacheInterface.create_cache_value
create_cache_value(step, payload) ==
    [step |-> step, payload |-> json_dumps(payload),
     created_at |-> "now", updated_at |-> "now"]

\* CacheInterface.extract_payload (the wrapper is never empty)
extract_payload(cache_value) == json_loads(cache_value.payload)

(***************************************************************************)
(* PostgresCache over the table cache_entries (`rows`).  `up` is whether   *)
(* the connection pool and the statement work for this call.  Every        *)
(* operation returns its value and the table it leaves; `raised` is        *)
(* whether an exception leaves the method.                                 *)
(***************************************************************************)
pg_row(key, step, uri, payload) ==
    [cache_key |-> key, step |-> step, uri |-> uri,
     success |-> payload_success(payload), payload |-> json_dumps(payload)]

\* INSERT ... ON CONFLICT (cache_key) DO UPDATE SET success, payload
pg_upsert(rows, row) ==
    IF \E r \in rows : r.cache_key = row.cache_key
    THEN { IF r.cache_key = row.cache_key
           THEN [r EXCEPT !.success = row.success, !.payload = row.payload]
           ELSE r : r \in rows }
    ELSE rows \cup {row}

PostgresCache_get(rows, uri, step, up) ==
    LET k == generate_cache_key(<<uri, step>>) IN
    IF k.raised \/ ~up
    THEN [ret |-> Miss, raised |-> FALSE]            \* except Exception: return None
    ELSE LET found == { r \in rows : r.cache_key = k.key } IN
         IF found = {}
         THEN [ret |-> Miss, raised |-> FALSE]
         ELSE [ret |-> Hit(json_loads((CHOOSE r \in found : TRUE).payload)),
               raised |-> FALSE]

\* a set without the except clause: the exception reaches the caller
PostgresCache_set_raising(rows, uri, step, payload, up) ==
    LET k == generate_cache_key(<<uri, step>>) IN
    IF k.raised \/ ~up
    THEN [ok |-> FALSE, rows |-> rows, raised |-> TRUE]
    ELSE [ok |-> TRUE, rows |-> pg_upsert(rows, pg_row(k.key, step, uri, payload)),
          raised |-> FALSE]

PostgresCache_set(rows, uri, step, payload, up) ==
    LET k == generate_cache_key(<<uri, step>>) IN
    IF k.raised \/ ~up
    THEN [ok |-> FALSE, rows |-> rows, raised |-> FALSE]   \* except Exception: return False
    ELSE [ok |-> TRUE, rows |-> pg_upsert(rows, pg_row(k.key, step, uri, payload)),
          raised |-> FALSE]

PostgresCache_delete(rows, uri, step, up) ==
    LET k == generate_cache_key(<<uri, step>>) IN
    IF k.raised \/ ~up
    THEN [ok |-> FALSE, rows |-> rows, raised |-> FALSE]
    ELSE LET found == { r \in rows : r.cache_key = k.key } IN
         [ok |-> found # {}, rows |-> rows \ found, raised |-> FALSE]

\* uris is a sequence (a Python list); the result is a dict uri -> payload
PostgresCache_get_many(rows, uris, step, up) ==
    IF Len(uris) = 0 THEN [ret |-> << >>, raised |-> FALSE]
    ELSE
    LET keys == [ i \in 1..Len(uris) |-> generate_cache_key(<<uris[i], step>>) ] IN
    IF (\E i \in 1..Len(uris) : keys[i].raised) \/ ~up
    THEN [ret |-> << >>, raised |-> FALSE]            \* except Exception: return {}
    ELSE LET hits == { u \in { uris[i] : i \in 1..Len(uris) } :
                         \E r \in rows : \E i \in 1..Len(uris) :
                             uris[i] = u /\ r.cache_key = keys[i].key } IN
         [ret |-> [ u \in hits |->
                     json_loads((CHOOSE r \in rows : \E i \in 1..Len(uris) :
                                   uris[i] = u /\ r.cache_key = keys[i].key).payload) ],
          raised |-> FALSE]

RECURSIVE pg_upsert_all(_, _, _)
pg_upsert_all(rows, batch, i) ==
    IF i > Len(batch) THEN rows
    ELSE pg_upsert_all(pg_upsert(rows, batch[i]), batch, i + 1)

\* a set_many that commits its first entry before the batch fails
PostgresCache_set_many_partial(rows, entries, up) ==
    IF Len(entries) = 0 THEN [ok |-> TRUE, rows |-> rows, raised |-> FALSE]
    ELSE [ok |-> FALSE,
          rows |-> pg_upsert(rows,
                     pg_row(generate_cache_key(<<entries[1][1], entries[1][2],
                                                 DefaultEnv>>).key,
                            entries[1][2], entries[1][1], entries[1][3])),
          raised |-> FALSE]

\* entries is a sequence of <<uri, step, payload>>
PostgresCache_set_many(rows, entries, up) ==
    IF Len(entries) = 0 THEN [ok |-> TRUE, rows |-> rows, raised |-> FALSE]
    ELSE
    LET keys == [ i \in 1..Len(entries) |->
                    generate_cache_key(<<entries[i][1], entries[i][2]>>) ] IN
    IF (\E i \in 1..Len(entries) : keys[i].raised) \/ ~up
    THEN [ok |-> FALSE, rows |-> rows, raised |-> FALSE]   \* rolled back, return False
    ELSE LET batch == [ i \in 1..Len(entries) |->
                          pg_row(keys[i].key, entries[i][2], entries[i][1], entries[i][3]) ] IN
         [ok |-> TRUE, rows |-> pg_upsert_all(rows, batch, 1), raised |-> FALSE]

(***************************************************************************)
(* RedisCache over the key space `kv` (a set of [key, value] pairs, one    *)
(* per key).                                                               *)
(***************************************************************************)
RedisCache_get(kv, uri, step, up) ==
    LET k == generate_cache_key(<<uri, step, DefaultEnv>>) IN
    IF k.raised \/ ~up
    THEN [ret |-> Miss, raised |-> FALSE]
    ELSE LET found == { e \in kv : e.key = k.key } IN
         IF found = {}
         THEN [ret |-> Miss, raised |-> FALSE]
         ELSE [ret |-> Hit(extract_payload((CHOOSE e \in found : TRUE).value)),
               raised |-> FALSE]

RedisCache_set(kv, uri, step, payload, up) ==
    LET k == generate_cache_key(<<uri, step, DefaultEnv>>) IN
    IF k.raised \/ ~up
    THEN [ok |-> FALSE, kv |-> kv, raised |-> FALSE]
    ELSE [ok |-> TRUE,
          kv |-> { e \in kv : e.key # k.key }
                   \cup { [key |-> k.key, value |-> create_cache_value(step, payload)] },
          raised |-> FALSE]

RedisCache_delete(kv, uri, step, up) ==
    LET k == generate_cache_key(<<uri, step, DefaultEnv>>) IN
    IF k.raised \/ ~up
    THEN [ok |-> FALSE, kv |-> kv, raised |-> FALSE]
    ELSE LET found == { e \in kv : e.key # k.key } IN
         [ok |-> found # kv, kv |-> found, raised |-> FALSE]

(***************************************************************************)
(* State.                                                                  *)
(***************************************************************************)
VARIABLES
    rows,       \* the cache_entries table of the PostgreSQL database
    kv,         \* the Redis key space
    op,         \* the last step-cache call: its arguments and its outcome
    cfg,        \* PipelineConfig and the records the enabled sources yield
    files,      \* the sources whose RDF output file exists on disk
    run,        \* number of Pipeline.run calls started so far
    pc,         \* position of the current Pipeline.run call
    force,      \* force_deployment of the current run
    src,        \* _run_ingestion: index of the next source_config
    all_items,  \* _run_ingestion: all_items; later canonical_reviews / enriched_reviews
    ingest,     \* the sources whose get_data raised, and the last filter call
    enr,        \* Enricher.enrich: cached_data, loop index i, results
    work,       \* what this run did: computations, cache writes, saves, deployments
    results,    \* PipelineResults of the current run
    prev,       \* how the previous run ended
    disk,       \* the raw-source cache directory: payload and metadata file per key
    clock,      \* time.time(), in hours
    lock,       \* DataCache._lock: the thread that holds it, 0 when free
    th,         \* the threads sharing the DataCache: position inside put
    dop,        \* the last DataCache / DataManager call: arguments and outcome
    puts,       \* the put calls started so far and those that returned normally
    ids,        \* two claim reviews and the identifiers computed for them
    urlrun,     \* the last URLTextEnricher.enrich_batch pass: batch and cache calls
    keyrun,     \* two provider configurations of a source and their raw-cache keys
    ext,        \* URLTextEnricher._extract_url_text: the loop and how it ended
    sqlc,       \* analytics API: _RESULT_CACHE, time.time() and the last run_query call
    conn        \* ISQL service: the ConnectionManager, time.time() and the last call

cacheVars == <<rows, kv, op>>
pipeVars == <<cfg, files, run, pc, force, src, all_items, ingest, enr, work, results, prev>>
dataVars == <<disk, clock, lock, th, dop, puts>>
svcVars == <<sqlc, conn>>
auxVars == <<ids, urlrun, keyrun, ext, sqlc, conn>>
vars == <<rows, kv, op, cfg, files, run, pc, force, src, all_items, ingest, enr, work,
          results, prev, disk, clock, lock, th, dop, puts, ids, urlrun,
          keyrun, ext, sqlc, conn>>

\* the tables a database can hold when the program connects to it
\* (CREATE TABLE IF NOT EXISTS keeps what is there): at most one row per
\* cache_key, written for (uri, step) under the documented key format
stored_payload(step) ==
    IF step = MARKER THEN marker_payload("'s1'") ELSE cache_success_payload("'e1'")

stored_row(uri, step, payload) ==
    pg_row(generate_cache_key(<<uri, step, DefaultEnv>>).key, step, uri, payload)

InitialTables ==
    { { stored_row(e[1], e[2], stored_payload(e[2])) : e \in D } :
        D \in SUBSET (URIs \X StepNames) }

\* the entries of the table for one (identifier, step) pair
pg_entries(table, uri, step) == { r \in table : r.uri = uri /\ r.step = step }

NoOp == [name |-> "none", backend |-> "none", uri |-> 0, step |-> MARKER,
         uris |-> << >>, payload |-> NoDict, up |-> TRUE,
         existed |-> FALSE, ok |-> FALSE, ret |-> Miss, many |-> << >>,
         raised |-> FALSE, text |-> TRUE, avail |-> TRUE, computed |-> FALSE]

(***************************************************************************)
(* Enricher (enrichers/base.py) and DBpediaEnricher.                       *)
(*                                                                         *)
(* Pipeline._initialize_components can only keep a DBpediaEnricher:        *)
(* URLTextEnricher and BertFactorsEnricher define neither _process_item    *)
(* nor apply_cached_data, so instantiating either raises TypeError, which  *)
(* _initialize_components re-raises.  A constructed pipeline therefore has *)
(* url_text_extraction and bert_factors disabled.                          *)
(***************************************************************************)
\* the step cache of the pipeline is reachable during the runs modelled
\* here; calls that fail are the subject of SpecCache
Reachable == TRUE

\* values of an item's entity fields
NoEntities == "none"
ExtractedEntities == "'e1'"
ClaimEntitiesOnly == "'e1-claim'"
EmptyEntities == "'empty'"

\* outcomes of the Spotlight calls of one _process_item
Outcomes == {"ok", "raise_first", "raise_later"}

\* DBpediaEnricher._process_item: the item it returns, the table it leaves,
\* the cache.set calls it issues, whether a Spotlight call raised (the except
\* clause of _process_item catches it) and the error entries it issues
\* an Enricher.set_cached that calls the cache without looking at self.cache
Enricher_set_cached_unguarded(cache, table, uri, step, payload) ==
    [rows |-> PostgresCache_set(table, uri, step, payload, cache /\ Reachable).rows,
     calls |-> { <<uri, step>> }]

\* Enricher.set_cached (base.py:113-117); `cache` says whether self.cache is
\* a cache object and not None: the table left and the cache.set calls made
Enricher_set_cached(cache, table, uri, step, payload) ==
    IF ~cache THEN [rows |-> table, calls |-> {}]
    ELSE [rows |-> PostgresCache_set(table, uri, step, payload, Reachable).rows,
          calls |-> { <<uri, step>> }]

DBpediaEnricher_process_item(cache, table, item, outcome) ==
    LET payload ==
            IF outcome = "ok" THEN cache_success_payload(ExtractedEntities)
            ELSE cache_error_payload("'api_error'", EmptyEntities)
        w == Enricher_set_cached(cache, table, item.uri, DBPEDIA, payload)
        entities ==
            CASE outcome = "ok"          -> ExtractedEntities
              [] outcome = "raise_first" -> item.entities
              [] OTHER                   -> ClaimEntitiesOnly
    IN [item |-> [item EXCEPT !.entities = entities], rows |-> w.rows,
        payload |-> payload,
        raised |-> FALSE, writes |-> w.calls,
        failed |-> outcome # "ok",
        errors |-> IF outcome = "ok" THEN {}
                   ELSE { <<c[1], c[2], payload.error>> : c \in w.calls }]

\* DBpediaEnricher.apply_cached_data: cached_data["data"] raises KeyError
\* when the payload has no "data" member
DBpediaEnricher_apply_cached_data(item, cached) ==
    IF "data" \notin DOMAIN cached
    THEN [item |-> item, raised |-> TRUE]
    ELSE [item |-> [item EXCEPT !.entities =
                        IF cached["data"] = EmptyEntities THEN item.entities
                        ELSE cached["data"]],
          raised |-> FALSE]

\* an enrich whose except clause appends nothing
Enricher_enrich_item_dropping(cache, table, item, cached_data, outcome) ==
    IF item.uri \in DOMAIN cached_data
    THEN LET a == DBpediaEnricher_apply_cached_data(item, cached_data[item.uri]) IN
         [appended |-> IF a.raised THEN << >> ELSE << a.item >>,
          computed |-> FALSE, rows |-> table, writes |-> {},
          failed |-> FALSE, errors |-> {}]
    ELSE LET r == DBpediaEnricher_process_item(cache, table, item, outcome) IN
         [appended |-> IF r.raised THEN << >> ELSE << r.item >>,
          computed |-> TRUE, rows |-> r.rows, writes |-> r.writes,
          failed |-> r.failed, errors |-> r.errors]

\* Enricher.enrich, one pass of the loop body (base.py:45-62): the element
\* appended to results, whether _process_item was invoked, the table left
Enricher_enrich_item(cache, table, item, cached_data, outcome) ==
    IF item.uri \in DOMAIN cached_data
    THEN LET a == DBpediaEnricher_apply_cached_data(item, cached_data[item.uri]) IN
         [appended |-> << IF a.raised THEN item ELSE a.item >>,
          computed |-> FALSE, rows |-> table, writes |-> {},
          failed |-> FALSE, errors |-> {}]
    ELSE LET r == DBpediaEnricher_process_item(cache, table, item, outcome) IN
         [appended |-> << IF r.raised THEN item ELSE r.item >>,
          computed |-> TRUE, rows |-> r.rows, writes |-> r.writes,
          failed |-> r.failed, errors |-> r.errors]

(***************************************************************************)
(* BertFactorsEnricher (enrichers/bert_factors_enricher.py).               *)
(***************************************************************************)
\* Enricher.step_name of BertFactorsEnricher (base.py:25)
BERT == "enricher.bert_factors"

\* the dict _compute_factors returns and _apply_factors caches as it is
bert_factors == [emotion |-> "'joy'", sentiment |-> "'positive'"]

\* the methods class Enricher declares with @abstractmethod
Enricher_abstract_methods == {"_process_item", "is_available", "apply_cached_data"}

\* the methods of Enricher that class BertFactorsEnricher defines
BertFactorsEnricher_methods == {"__init__", "is_available", "enrich"}

\* ABCMeta: cls() raises TypeError unless every abstract method is overridden
abc_instantiable(methods) == Enricher_abstract_methods \subseteq methods

\* BertFactorsEnricher.enrich(claim_review) for an item with a uri, on the
\* Redis key space `store`: the key space it leaves, whether _compute_factors
\* was called and whether factors were applied to the item.  `models_ok` is
\* whether _compute_factors returns factors rather than None.
BertFactorsEnricher_enrich(store, uri, has_text, available, models_ok, up) ==
    IF ~available
    THEN [kv |-> store, computed |-> FALSE, applied |-> FALSE]
    ELSE LET cached_data == RedisCache_get(store, uri, BERT, up).ret IN
         IF cached_data.hit
         THEN [kv |-> store, computed |-> FALSE, applied |-> TRUE]
         ELSE IF ~has_text
         THEN [kv |-> store, computed |-> FALSE, applied |-> FALSE]
         ELSE IF ~models_ok
         THEN [kv |-> store, computed |-> TRUE, applied |-> FALSE]
         ELSE [kv |-> RedisCache_set(store, uri, BERT, bert_factors, up).kv,
               computed |-> TRUE, applied |-> TRUE]

(***************************************************************************)
(* URLTextEnricher (enrichers/url_text_enricher.py) and text extraction    *)
(* (utils/text_processing.py).                                             *)
(***************************************************************************)
\* the elements of a list
set_of_seq(l) == { l[i] : i \in 1..Len(l) }

\* Enricher.step_name of URLTextEnricher (base.py:25)
URLTEXT == "enricher.url_text_extractor"

\* the methods of Enricher that class URLTextEnricher defines
URLTextEnricher_methods == {"__init__", "is_available", "enrich"}

\* the values of enum ExtractionErrorType
ExtractionErrorTypes ==
    { "invalid_input", "invalid_url", "timeout", "connection", "http", "request",
      "download_failed", "extraction_failed", "unknown" }

\* ExtractionErrorType.is_retryable
is_retryable(error_type) ==
    error_type \in {"timeout", "connection", "request", "download_failed", "unknown"}

\* the member names of enum ExtractionErrorType
ExtractionErrorMembers ==
    { "INVALID_INPUT", "INVALID_URL", "TIMEOUT", "CONNECTION", "HTTP_ERROR",
      "REQUEST_ERROR", "DOWNLOAD_FAILED", "EXTRACTION_FAILED", "UNKNOWN" }

\* most retries a URLTextEnricher is configured with
MaxRetries == 2

\* what one fetch_and_extract_text(url) call can do: return a successful
\* result, return a failed one with an error type or with none, or raise
FetchSuccess == [kind |-> "success", error_type |-> "none"]
FetchException == [kind |-> "exception", error_type |-> "none"]
FetchFailure(t) == [kind |-> "failure", error_type |-> t]
AttemptOutcomes ==
    { FetchSuccess, FetchException, FetchFailure("none") }
    \cup { FetchFailure(t) : t \in ExtractionErrorTypes }

\* _extract_url_text, the except clause at the last attempt
\* (url_text_enricher.py:157-162): ExtractionErrorType.UNEXPECTED is
\* evaluated, which raises AttributeError unless the enum has the member
URLTextEnricher_extract_last_exception(members) ==
    IF "UNEXPECTED" \in members
    THEN [next |-> "returned", result |-> FetchFailure("unexpected")]
    ELSE [next |-> "raised", result |-> FetchException]

\* _extract_url_text, one pass of the loop body for attempt number
\* `attempt` (from 0): whether the loop goes on, returns or raises
URLTextEnricher_extract_attempt(max_retries, attempt, outcome) ==
    CASE outcome.kind = "success" -> [next |-> "returned", result |-> outcome]
      [] outcome.kind = "failure" ->
            IF attempt < max_retries /\ outcome.error_type # "none"
               /\ is_retryable(outcome.error_type)
            THEN [next |-> "running", result |-> outcome]
            ELSE [next |-> "returned", result |-> outcome]
      [] OTHER ->
            IF attempt < max_retries
            THEN [next |-> "running", result |-> outcome]
            ELSE URLTextEnricher_extract_last_exception(ExtractionErrorMembers)

NoExt == [max_retries |-> 0, attempt |-> 0, status |-> "idle", log |-> << >>,
          result |-> FetchException]

\* what _extract_url_text hands to enrich: a successful TextExtractionResult,
\* a failed one with its error type, or an exception
ExtractResults ==
    { [success |-> TRUE, error_type |-> "none", raised |-> FALSE],
      [success |-> FALSE, error_type |-> "none", raised |-> TRUE] }
    \cup { [success |-> FALSE, error_type |-> t, raised |-> FALSE] :
             t \in ExtractionErrorTypes }

\* cache_payload of a successful extraction (url_text_enricher.py:70-73)
url_text_payload == [review_url_text |-> "'text'", review_url |-> "'url'"]

\* cache_payload of a failed extraction (url_text_enricher.py:91-104); the
\* members of the inner dict error_details are written with dotted keys
url_failure_payload(error_type) ==
    [review_url_text |-> PyNone, review_url |-> "'url'", extraction_error |-> PyTrue]
    @@ ("error_details.error_type" :> error_type)
    @@ ("error_details.error_message" :> "'message'")

\* URLTextEnricher.enrich(claim_review) for a review with a uri, on the
\* Redis key space `store`: the key space it leaves, the cache calls it
\* makes, whether the extraction was run and whether enrich raised
URLTextEnricher_enrich(store, uri, has_url, result, up) ==
    IF ~has_url
    THEN [kv |-> store, calls |-> << >>, extracted |-> FALSE, raised |-> FALSE]
    ELSE LET cached_data == RedisCache_get(store, uri, URLTEXT, up).ret IN
         IF cached_data.hit
         THEN [kv |-> store, calls |-> << <<"get", uri>> >>,
               extracted |-> FALSE, raised |-> FALSE]
         ELSE IF result.raised
         THEN [kv |-> store, calls |-> << <<"get", uri>> >>,
               extracted |-> TRUE, raised |-> TRUE]
         ELSE LET cache_payload == IF result.success THEN url_text_payload
                                   ELSE url_failure_payload(result.error_type)
              IN [kv |-> RedisCache_set(store, uri, URLTEXT, cache_payload, up).kv,
                  calls |-> << <<"get", uri>>, <<"set", uri>> >>,
                  extracted |-> TRUE, raised |-> FALSE]

RECURSIVE URLTextEnricher_enrich_batch(_, _, _, _, _)
\* URLTextEnricher.enrich_batch: enrich for each review in turn, an exception
\* of enrich logged.  `has_url` and `extractions` give per position whether the
\* review has a review_url and what _extract_url_text would yield for it.
URLTextEnricher_enrich_batch(store, batch, has_url, extractions, up) ==
    IF batch = << >>
    THEN [kv |-> store, calls |-> << >>, failed |-> {}]
    ELSE LET r == URLTextEnricher_enrich(store, Head(batch), Head(has_url),
                                         Head(extractions), up)
             rest == URLTextEnricher_enrich_batch(r.kv, Tail(batch), Tail(has_url),
                                                  Tail(extractions), up)
         IN [kv |-> rest.kv, calls |-> r.calls \o rest.calls,
             failed |-> rest.failed \cup
                 (IF r.extracted /\ ~r.raised /\ ~Head(extractions).success
                     /\ Head(batch) \notin set_of_seq(Tail(batch))
                  THEN {Head(batch)} ELSE {})]

NoUrlRun == [batch |-> << >>, calls |-> << >>, failed |-> {}, up |-> FALSE]

(***************************************************************************)
(* Pipeline (pipeline.py).                                                 *)
(***************************************************************************)
\* most records all enabled sources yield together
MaxItems == 2
\* Pipeline.run calls in one behaviour
MaxRuns == 2

\* config.data_sources, all enabled, in configuration order
SourceNames == <<"s1", "s2">>
SourceIdx == 1..Len(SourceNames)

\* the records the sources yield: <<uri, source index>>, grouped by source
DataSets ==
    { d \in UNION { [1..n -> URIs \X SourceIdx] : n \in 0..MaxItems } :
        \A i \in 1..Len(d) : \A j \in 1..Len(d) : i < j => d[i][2] <= d[j][2] }

\* processor.process(raw_data) of source k: its records, as new objects
DataManager_get_data(data, k) ==
    SelectSeq([ i \in 1..Len(data) |->
                  [uri |-> data[i][1], source |-> data[i][2], oid |-> i,
                   entities |-> NoEntities] ],
              LAMBDA it : it.source = k)

RECURSIVE list_of(_)
\* list(a_set): the elements in some order
list_of(S) ==
    IF S = {} THEN << >>
    ELSE LET x == CHOOSE y \in S : TRUE IN <<x>> \o list_of(S \ {x})

uris_of(items) == [ i \in 1..Len(items) |-> items[i].uri ]

\* Pipeline._get_fully_processed_uris; `enrichers` is self.enrichers (a set
\* of step names), `avail` what enricher.is_available() answers, `cache`
\* whether self.cache is a cache object
Pipeline_get_fully_processed_uris(cache, table, uris, enrichers, avail) ==
    IF ~cache \/ Len(uris) = 0 THEN {}
    ELSE
    LET pipeline_cached == PostgresCache_get_many(table, uris, MARKER, Reachable).ret
        pipeline_processed_uris == DOMAIN pipeline_cached
    IN
    IF pipeline_processed_uris = {} THEN {}
    ELSE IF DBPEDIA \in enrichers /\ avail
         THEN pipeline_processed_uris \cap
                DOMAIN PostgresCache_get_many(table, list_of(pipeline_processed_uris),
                                              DBPEDIA, Reachable).ret
         ELSE pipeline_processed_uris

\* Pipeline._run_ingestion, the body of the loop for one source whose
\* get_data returned `items`: the items added to all_items
Pipeline_filter_items(items, fully_processed_uris) ==
    SelectSeq(items, LAMBDA it : it.uri \notin fully_processed_uris)

\* Pipeline._mark_uri_processed
Pipeline_mark_uri_processed(cache, table, uri, source_name) ==
    IF ~cache THEN table
    ELSE PostgresCache_set(table, uri, MARKER, marker_payload(source_name), Reachable).rows

RECURSIVE mark_all(_, _, _, _)
\* for review in source_reviews: self._mark_uri_processed(...)
mark_all(cache, table, reviews, i) ==
    IF i > Len(reviews) THEN table
    ELSE mark_all(cache,
                  Pipeline_mark_uri_processed(cache, table, reviews[i].uri,
                                              reviews[i].source),
                  reviews, i + 1)

\* reviews_by_source: the sources of the reviews, in order of first appearance
sources_of(reviews) == { reviews[i].source : i \in 1..Len(reviews) }

\* a generation pass that writes the markers before it saves the file
Pipeline_generate_source_marking_first(cache, table, reviews, k, save_ok) ==
    LET source_reviews == SelectSeq(reviews, LAMBDA it : it.source = k) IN
    [saved |-> save_ok, rows |-> mark_all(cache, table, source_reviews, 1),
     marked |-> { source_reviews[i].uri : i \in 1..Len(source_reviews) }]

\* Pipeline._run_rdf_generation, one pass of the loop over reviews_by_source
\* for source k: rdf_generator.save, then the marker writes.  save raising
\* leaves the loop before any marker of this source is written.  `marked`
\* are the identifiers whose marker write reaches the cache.
Pipeline_generate_source(cache, table, reviews, k, save_ok) ==
    LET source_reviews == SelectSeq(reviews, LAMBDA it : it.source = k) IN
    IF save_ok
    THEN [saved |-> TRUE, rows |-> mark_all(cache, table, source_reviews, 1),
          marked |-> IF cache
                     THEN { source_reviews[i].uri : i \in 1..Len(source_reviews) }
                     ELSE {}]
    ELSE [saved |-> FALSE, rows |-> table, marked |-> {}]

\* Pipeline._run_deployment: `ok` are the files whose deploy returns True
Pipeline_run_deployment(handler, generated_files, ok) ==
    IF ~handler THEN TRUE
    ELSE IF generated_files = {} THEN FALSE
    ELSE generated_files \subseteq ok

NoEnr == [cached_data |-> << >>, i |-> 0, results |-> << >>, lookup |-> {},
          input |-> << >>, failed |-> {}]
NoWork == [computed |-> {}, writes |-> {}, cache_calls |-> {}, errors |-> {}, saved |-> {}, genq |-> {},
           generated |-> {}, generr |-> FALSE, marked |-> {},
           deployed |-> {}, failed |-> {}]
NoIngest == [failed_sources |-> {}, put_failed |-> {}, seen |-> {},
             filter_uris |-> << >>, filter_avail |-> FALSE, filter_ret |-> {},
             filtered |-> FALSE]
NoResults == [returned |-> FALSE, success |-> FALSE, total_processed |-> 0]
NoPrev == [ended |-> "none", success |-> FALSE, ingested_all |-> FALSE,
           seen |-> {}, marked |-> {}, writes |-> {}]
NoCfg == [data |-> << >>, dbpedia |-> FALSE, handler |-> FALSE, cache |-> FALSE]

\* Pipeline._initialize_components, the step cache (pipeline.py:100-111):
\* PostgresCache(...) raising leaves self.cache None and construction goes on
Pipeline_initialize_components(connect_raises) ==
    [cache |-> ~connect_raises, raised |-> FALSE]

PipelineIdle ==
    /\ cfg = NoCfg /\ files = {} /\ run = 0 /\ pc = "idle" /\ force = FALSE
    /\ src = 1 /\ all_items = << >> /\ ingest = NoIngest /\ enr = NoEnr
    /\ work = NoWork /\ results = NoResults /\ prev = NoPrev

(***************************************************************************)
(* DataCache (utils/data_cache.py): the raw-source cache.  A source name   *)
(* is the sequence of the pieces its "_" characters separate, so <<"a">>   *)
(* is "a" and <<"a", "b">> is "a_b".  Time is counted in hours.            *)
(***************************************************************************)
\* threads of the process that share the DataCache
NumThreads == 2
\* put calls in one behaviour; a payload is named by the put that wrote it
MaxPuts == 2
\* hours the clock can advance
MaxTicks == 2
\* largest ttl_hours a call passes
MaxTTL == 1
\* distinct provider configurations of one source
NumConfigs == 2

Threads == 1..NumThreads
DSources == { <<"a">>, <<"a", "b">>, <<"c">> }
Configs == 1..NumConfigs
Keys == DSources \X Configs

\* self.default_ttl_hours, as configured for the runs modelled here
DefaultTTL == 2
\* ttl_hours = None
NoTTL == -1
\* ttl_hours arguments: None, or a number of hours
TTLs == {NoTTL} \cup (0..MaxTTL)
\* source_name = None
NoSource == << >>
\* time.time() when the process starts: later than any ttl after 1970
Epoch == MaxTTL + DefaultTTL + 1
Times == Epoch..(Epoch + MaxTicks)

\* contents of a file: absent, unreadable (truncated gzip stream, broken
\* JSON), a JSON object without "timestamp", or what put n wrote at time ts
Absent == [kind |-> "absent", n |-> 0, ts |-> 0]
Broken(n) == [kind |-> "broken", n |-> n, ts |-> 0]
NoTimestamp == [kind |-> "no_timestamp", n |-> 0, ts |-> 0]
Written(n, ts) == [kind |-> "written", n |-> n, ts |-> ts]
NoEntry == [gz |-> Absent, meta |-> Absent]
\* the cache directory, by key: the keys that have a file, with their files
EmptyDisk == [ k \in {} |-> NoEntry ]

\* the files of key k in directory d
entry_of(d, k) == IF k \in DOMAIN d THEN d[k] ELSE NoEntry

\* directory d with the files of key k replaced by entry e
with_entry(d, k, e) ==
    IF e = NoEntry
    THEN [ x \in DOMAIN d \ {k} |-> d[x] ]
    ELSE [ x \in DOMAIN d \cup {k} |-> IF x = k THEN e ELSE d[x] ]

\* hashlib.sha256(config_str.encode()).hexdigest(): no "_" in it
sha256_hex(config) ==
    CASE config = 1 -> "h1" [] config = 2 -> "h2" [] OTHER -> "h3"

\* DataCache._generate_cache_key: source_name, "_", sha256 of the config
DataCache_generate_cache_key(source_name, config) ==
    source_name \o << sha256_hex(config) >>

\* DataCache._get_cache_path: the directory is cache_key.split("_")[0]
DataCache_cache_subdir(cache_key) == << cache_key[1] >>

\* the directory the files of (source_name, config) are stored in
dir_of(key) == DataCache_cache_subdir(DataCache_generate_cache_key(key[1], key[2]))

\* ttl_hours = ttl_hours or self.default_ttl_hours
DataCache_effective_ttl(ttl_hours) ==
    IF ttl_hours = NoTTL \/ ttl_hours = 0 THEN DefaultTTL ELSE ttl_hours

\* DataCache._is_expired
DataCache_is_expired(entry, ttl_hours, now) ==
    CASE entry.meta.kind = "absent"       -> TRUE
      [] entry.meta.kind = "broken"       -> TRUE     \* except Exception: return True
      [] entry.meta.kind = "no_timestamp" -> (now - 0) > ttl_hours
      [] OTHER                            -> (now - entry.meta.ts) > ttl_hours

\* DataCache.get, the body under the lock: None (a miss) or the bytes
DataCache_get(entry, ttl_hours, ignore_expiry, now) ==
    LET ttl == DataCache_effective_ttl(ttl_hours) IN
    IF ~ignore_expiry /\ DataCache_is_expired(entry, ttl, now)
    THEN [hit |-> FALSE, n |-> 0, raised |-> FALSE]
    ELSE IF entry.gz.kind = "absent"
    THEN [hit |-> FALSE, n |-> 0, raised |-> FALSE]
    ELSE IF entry.gz.kind = "broken"
    THEN [hit |-> FALSE, n |-> 0, raised |-> FALSE]   \* except Exception: return None
    ELSE [hit |-> TRUE, n |-> entry.gz.n, raised |-> FALSE]

\* the points at which a write of put can fail, and "none"
PutFaults == {"none", "open", "write"}

\* DataCache.put, gzip.open(cache_path, "wb") and f.write(data)
DataCache_put_payload(entry, n, fault) ==
    CASE fault = "none"  -> [entry EXCEPT !.gz = Written(n, 0)]
      [] fault = "open"  -> entry
      [] OTHER           -> [entry EXCEPT !.gz = Broken(n)]

\* DataCache.put, open(metadata_path, "w") and json.dump(metadata, f)
DataCache_put_metadata(entry, n, now, fault) ==
    CASE fault = "none"  -> [entry EXCEPT !.meta = Written(n, now)]
      [] fault = "open"  -> entry
      [] OTHER           -> [entry EXCEPT !.meta = Broken(n)]

\* a put that leaves the files as they are when a write fails
DataCache_put_cleanup_none(entry) == entry

\* DataCache.put, the except clause: unlink both paths if they exist
DataCache_put_cleanup(entry) == NoEntry

\* DataCache.put as one call, from the entry it finds to the entry it leaves
DataCache_put(entry, n, now, payload_fault, metadata_fault) ==
    LET e1 == DataCache_put_payload(entry, n, payload_fault) IN
    IF payload_fault # "none"
    THEN [entry |-> DataCache_put_cleanup(e1), raised |-> TRUE]
    ELSE LET e2 == DataCache_put_metadata(e1, n, now, metadata_fault) IN
         IF metadata_fault # "none"
         THEN [entry |-> DataCache_put_cleanup(e2), raised |-> TRUE]
         ELSE [entry |-> e2, raised |-> FALSE]

\* DataCache.clear: shutil.rmtree(self.cache_dir / source_name), or of the
\* whole cache directory when source_name is None or empty
DataCache_clear(d, source_name) ==
    [ k \in { x \in DOMAIN d : ~(source_name = NoSource \/ dir_of(x) = source_name) }
        |-> d[k] ]

\* with self._lock: thread t can enter when no other thread holds the RLock
lock_unchecked(holder, t) == TRUE

lock_available(holder, t) == holder = 0 \/ holder = t

NoThread == [pc |-> "idle", key |-> << <<"a">>, 1 >>, n |-> 0]
NoDop == [name |-> "none", key |-> << <<"a">>, 1 >>, source |-> NoSource,
          ttl |-> NoTTL, ignore_expiry |-> FALSE, now |-> 0,
          hit |-> FALSE, n |-> 0, raised |-> FALSE, finished |-> FALSE,
          log |-> << >>, skip_download |-> FALSE, records |-> 0]

DataIdle ==
    /\ disk = EmptyDisk /\ clock = Epoch /\ lock = 0
    /\ th = [ t \in Threads |-> NoThread ]
    /\ dop = NoDop
    /\ puts = [started |-> 0, done |-> {}]

(***************************************************************************)
(* The configuration a raw-cache key is made of (providers/*.py,           *)
(* config/schemas.py).  A Python dict is the list of its (key, value)      *)
(* items in insertion order; values are atoms.                             *)
(***************************************************************************)
ProviderTypes == {"file", "github", "graphql", "http", "xwiki"}

\* ProviderConfig with the network parameters at their defaults; file_mtime
\* is what Path(file_path).stat() answers, "absent" when there is no file
BaseConfigs ==
    [ provider_type : ProviderTypes,
      file_path : {"'f'"}, file_mtime : {"absent", "'1.0'"},
      repository : {"'r1'", "'r2'"}, mode : {"release", "repository"},
      asset_pattern : {"'*.json'"}, extract_file : {PyNone},
      repository_path : {"''"}, repository_ref : {"'main'"},
      endpoint : {"'e'"}, query : {"'q1'", "'q2'"}, variables : {"{}"},
      base_url : {"'b'"}, url : {"'u1'", "'u2'"}, tags : {"['t1']", "['t2']"},
      batch_size : {"100"}, max_retries : {"3"}, rate_limit_delay : {"1.0"},
      timeout : {"30"} ]

\* the fields the configurations of the model differ in
NetworkFields == {"timeout", "rate_limit_delay", "max_retries", "batch_size"}
ContentFields == {"file_mtime", "repository", "mode", "query", "url", "tags"}

\* the other value of a field
other_value(field, v) ==
    CASE field = "timeout"          -> "10"
      [] field = "rate_limit_delay" -> "0.0"
      [] field = "max_retries"      -> "1"
      [] field = "batch_size"       -> "50"
      [] field = "file_mtime"       -> IF v = "absent" THEN "'1.0'" ELSE "absent"
      [] field = "repository"       -> IF v = "'r1'" THEN "'r2'" ELSE "'r1'"
      [] field = "mode"             -> IF v = "release" THEN "repository" ELSE "release"
      [] field = "query"            -> IF v = "'q1'" THEN "'q2'" ELSE "'q1'"
      [] field = "url"              -> IF v = "'u1'" THEN "'u2'" ELSE "'u1'"
      [] OTHER                      -> IF v = "['t1']" THEN "['t2']" ELSE "['t1']"

\* config with the fields of `changed` set to their other value
with_changed(config, changed) ==
    [ f \in DOMAIN config |->
        IF f \in changed THEN other_value(f, config[f]) ELSE config[f] ]

\* a get_cache_key_fields that also returns the timeout
get_cache_key_fields_with_timeout(config) ==
    CASE config.provider_type = "http" ->
            << <<"url", config.url>>, <<"timeout", config.timeout>> >>
      [] OTHER -> << <<"provider_type", config.provider_type>>,
                     <<"timeout", config.timeout>> >>

\* get_cache_key_fields of FileProvider, GitHubProvider, GraphQLProvider,
\* HttpProvider and XWikiProvider: the dict in insertion order
get_cache_key_fields(config) ==
    CASE config.provider_type = "file" ->
            << <<"file_path", config.file_path>> >> \o
            (IF config.file_mtime # "absent"
             THEN << <<"file_mtime", config.file_mtime>> >> ELSE << >>)
      [] config.provider_type = "github" ->
            << <<"repository", config.repository>>, <<"mode", config.mode>> >> \o
            (IF config.mode = "release"
             THEN << <<"asset_pattern", config.asset_pattern>>,
                     <<"extract_file", config.extract_file>> >>
             ELSE << <<"repository_path", config.repository_path>>,
                     <<"repository_ref", config.repository_ref>> >>)
      [] config.provider_type = "graphql" ->
            << <<"endpoint", config.endpoint>>, <<"query", config.query>>,
               <<"variables", config.variables>> >>
      [] config.provider_type = "http" ->
            << <<"url", config.url>> >>
      [] OTHER ->
            << <<"base_url", config.base_url>>, <<"tags", config.tags>> >>

\* the keys of the model in the order sorted() puts them
SortedKeys ==
    << "asset_pattern", "base_url", "endpoint", "extract_file", "file_mtime",
       "file_path", "mode", "provider_type", "query", "repository",
       "repository_path", "repository_ref", "tags", "timeout", "url", "variables" >>

\* json.dumps(config, sort_keys=True, ensure_ascii=True): the members in the
\* order of their keys, whatever the order of the dict
json_dumps_sorted(items) ==
    LET value_of(k) == (CHOOSE i \in 1..Len(items) : items[i][1] = k)
        present == SelectSeq(SortedKeys,
                             LAMBDA k : \E i \in 1..Len(items) : items[i][1] = k)
    IN [ j \in 1..Len(present) |->
            << present[j], json_token(items[value_of(present[j])][2]) >> ]

\* the items of a dict in the opposite insertion order
reversed_items(items) == [ i \in 1..Len(items) |-> items[Len(items) + 1 - i] ]

\* DataCache._generate_cache_key on a config dict: source_name, "_", and
\* the sha256 of the JSON text, taken as injective
DataCache_key_of_fields(source_name, items) ==
    source_name \o << <<"sha256", json_dumps_sorted(items)>> >>

NoKeyRun == [source |-> NoSource, c1 |-> << >>, c2 |-> << >>, changed |-> {},
             reversed |-> FALSE, key1 |-> << >>, key2 |-> << >>,
             hit |-> FALSE, done |-> FALSE]

(***************************************************************************)
(* DataManager.get_data (data_manager.py).                                 *)
(***************************************************************************)
\* what can go wrong in one get_data call, besides the two writes of put
FetchOutcomes == {"ok", "fetch_raises", "process_raises"}

\* a get_data that takes every cache answer for a miss
DataManager_get_data_refetching(entry, ttl, skip_download, now, n, outcome, pf, mf) ==
    IF skip_download
    THEN [entry |-> entry, raised |-> FALSE, log |-> <<"cache.get">>, records |-> 0]
    ELSE IF outcome = "fetch_raises"
    THEN [entry |-> entry, raised |-> TRUE,
          log |-> <<"cache.get", "fetch">>, records |-> 0]
    ELSE LET w == DataCache_put(entry, n, now, pf, mf) IN
         IF w.raised
         THEN [entry |-> w.entry, raised |-> TRUE,
               log |-> <<"cache.get", "fetch", "cache.put">>, records |-> 0]
         ELSE [entry |-> w.entry, raised |-> outcome = "process_raises",
               log |-> <<"cache.get", "fetch", "cache.put", "process">>,
               records |-> IF outcome = "process_raises" THEN 0 ELSE n]

\* DataManager.get_data, consumed to its end as _run_ingestion does with
\* list(...): the calls it makes in order, the entry it leaves, the payload
\* whose records it yields (0: none) and whether it raises.  Bytes fetched
\* now are named n.
DataManager_get_data_run(entry, ttl, skip_download, now, n, outcome, pf, mf) ==
    LET raw_data == DataCache_get(entry, ttl, skip_download, now) IN
    IF raw_data.hit
    THEN [entry |-> entry, raised |-> outcome = "process_raises",
          log |-> <<"cache.get", "process">>,
          records |-> IF outcome = "process_raises" THEN 0 ELSE raw_data.n]
    ELSE IF skip_download
    THEN [entry |-> entry, raised |-> FALSE, log |-> <<"cache.get">>, records |-> 0]
    ELSE IF outcome = "fetch_raises"
    THEN [entry |-> entry, raised |-> TRUE,
          log |-> <<"cache.get", "fetch">>, records |-> 0]
    ELSE LET w == DataCache_put(entry, n, now, pf, mf) IN
         IF w.raised
         THEN [entry |-> w.entry, raised |-> TRUE,
               log |-> <<"cache.get", "fetch", "cache.put">>, records |-> 0]
         ELSE [entry |-> w.entry, raised |-> outcome = "process_raises",
               log |-> <<"cache.get", "fetch", "cache.put", "process">>,
               records |-> IF outcome = "process_raises" THEN 0 ELSE n]

(***************************************************************************)
(* Identifiers (config/models.py).  A string is the sequence of its        *)
(* characters; None is the one-element sequence NoneStr, which no string   *)
(* of the model equals.                                                    *)
(***************************************************************************)
NoneStr == << "<None>" >>

\* x or ""
or_empty(x) == IF x = NoneStr THEN << >> ELSE x

\* str.lower
lower(s) == [ i \in DOMAIN s |-> IF s[i] = "A" THEN "a" ELSE s[i] ]

RECURSIVE lstrip(_)
lstrip(s) == IF s # << >> /\ Head(s) = " " THEN lstrip(Tail(s)) ELSE s

RECURSIVE first_word(_)
first_word(s) ==
    IF s = << >> \/ Head(s) = " " THEN << >> ELSE << Head(s) >> \o first_word(Tail(s))

\* normalize_text on a text without URLs, HTML entities and non-breaking
\* spaces: " ".join(text.split())
RECURSIVE normalize_text(_)
normalize_text(text) ==
    LET t == lstrip(text)
        w == first_word(t)
        rest == normalize_text(SubSeq(t, Len(w) + 1, Len(t)))
    IN IF t = << >> THEN << >>
       ELSE IF rest = << >> THEN w ELSE w \o << " " >> \o rest

\* hashlib.sha224(identifier.encode()).hexdigest(), taken as injective
sha224(identifier) == << "sha224", identifier >>

\* CanonicalClaim.uri
CanonicalClaim_uri(text) ==
    << "claim/", sha224(<< "claim" >> \o normalize_text(text)) >>

\* urlparse(review_url.lower()): a URL is given by its parts; the netloc and
\* the path of the lower-cased URL, the path closed by "/" unless it is empty
review_url_normalized_for_id(review_url) ==
    LET path == lower(review_url.path)
    IN lower(review_url.netloc) \o
       (IF path # << >> /\ path[Len(path)] # "/" THEN path \o << "/" >> ELSE path)

\* the string CanonicalClaimReview.uri hashes
ClaimReview_identifier(r) ==
    << "claim-review" >> \o normalize_text(r.text) \o or_empty(r.label)
        \o review_url_normalized_for_id(r.review_url)
        \o or_empty(r.date_published) \o or_empty(r.language)

CanonicalClaimReview_uri_without_language(r) ==
    << "claim-review/",
       sha224(<< "claim-review" >> \o normalize_text(r.text) \o or_empty(r.label)
                 \o review_url_normalized_for_id(r.review_url)
                 \o or_empty(r.date_published)) >>

\* CanonicalClaimReview.uri
CanonicalClaimReview_uri(r) ==
    << "claim-review/", sha224(ClaimReview_identifier(r)) >>

\* the claim reviews of the model: claim text, rating (label, None when
\* the review has no rating), review URL, publish date and language
Texts == { << >>, << "a" >>, << " ", "a" >>, << "a", "a" >> }
Labels == { NoneStr, << "a" >> }
ReviewURLs ==
    [ scheme : { << "h" >> }, netloc : { << "s" >>, << "S" >> },
      path : { << >>, << "/", "a" >>, << "/", "a", "/" >> } ]
Dates == { NoneStr, << >>, << "a" >> }
Languages == { NoneStr, << "a" >> }
ClaimReviews ==
    [ text : Texts, label : Labels, review_url : ReviewURLs,
      date_published : Dates, language : Languages ]

NoUri == << >>
NoIds == [a |-> << >>, b |-> << >>, uri_a |-> NoUri, uri_b |-> NoUri,
          claim_a |-> NoUri, claim_b |-> NoUri, done |-> FALSE]

(***************************************************************************)
(* The SQL result cache of the analytics API                               *)
(* (services/analytics_api/services/sql.py).  Times are seconds.           *)
(***************************************************************************)
\* CACHE_TTL = 86400  # 24 hours
CACHE_TTL == 86400
\* latest time.time() of the model
MaxSqlClock == 172800

\* the query files the endpoints of routers/pipeline.py name
QueryFiles == { "enrichers_error_types.sql", "enrichers_domain_failures.sql" }

\* an omitted from_ts / to_ts (Query(default=None))
NoTs == 0

\* the failed cache entries the queries aggregate
FailureRows ==
    << [step |-> URLTEXT, ts |-> 1], [step |-> DBPEDIA, ts |-> 2],
       [step |-> URLTEXT, ts |-> 3] >>

\* params as domain_failures / error_types build them
endpoint_params(step, from_ts, to_ts, limit) ==
    [step |-> step, from_ts |-> from_ts, to_ts |-> to_ts, limit |-> limit]

\* the default request and requests that change one parameter of it
QueryParams ==
    { endpoint_params(URLTEXT, NoTs, NoTs, 50),
      endpoint_params(DBPEDIA, NoTs, NoTs, 50),
      endpoint_params(URLTEXT, 2, NoTs, 50),
      endpoint_params(URLTEXT, NoTs, 2, 50),
      endpoint_params(URLTEXT, NoTs, NoTs, 1) }

\* session.execute(stmt, params): the rows the bound parameters select
session_execute(filename, params) ==
    LET matches(r) ==
            /\ params.step = PyNone \/ r.step = params.step
            /\ params.from_ts = NoTs \/ r.ts >= params.from_ts
            /\ params.to_ts = NoTs \/ r.ts <= params.to_ts
        sel == SelectSeq(FailureRows, matches)
        lim == IF Len(sel) > params.limit THEN SubSeq(sel, 1, params.limit) ELSE sel
    IN [ i \in 1..Len(lim) |->
            [query |-> filename, step |-> lim[i].step, ts |-> lim[i].ts] ]

\* cache_key = f"{namespace}:{filename}"
sql_cache_key(namespace, filename) == <<namespace, ":", filename>>

\* run_query: a fresh cached result is returned as it is; otherwise the
\* query is executed and, with use_cache, its rows are stored
run_query(cache, now, namespace, filename, params, use_cache) ==
    LET key == sql_cache_key(namespace, filename) IN
    IF /\ use_cache
       /\ key \in DOMAIN cache
       /\ now - cache[key].time < CACHE_TTL
    THEN [rows |-> cache[key].rows, cache |-> cache, executed |-> FALSE]
    ELSE LET result == session_execute(filename, params) IN
         [rows |-> result,
          cache |-> IF use_cache
                    THEN (key :> [rows |-> result, time |-> now]) @@ cache
                    ELSE cache,
          executed |-> TRUE]

\* clear_cache
sql_clear_cache(cache) == [cache |-> << >>, entries_removed |-> Cardinality(DOMAIN cache)]

NoSqlCall ==
    [name |-> "none", filename |-> "", params |-> endpoint_params(PyNone, NoTs, NoTs, 0),
     use_cache |-> FALSE, rows |-> << >>, executed |-> FALSE]
NoSqlc == [cache |-> << >>, now |-> 0, call |-> NoSqlCall]

(***************************************************************************)
(* ConnectionManager of the ISQL service                                   *)
(* (docker/isql-service/src/server.py).  Times are seconds.                *)
(***************************************************************************)
\* self.max_failures = 5
max_failures == 5
\* self.base_retry_delay = 1
base_retry_delay == 1
\* self.max_retry_delay = 30
max_retry_delay == 30
\* latest time.time() of the model
MaxIsqlClock == 40
\* failed attempts in a row the model follows
MaxFailureCount == 6

min2(a, b) == IF a <= b THEN a ELSE b

ConnectionManager_calculate_retry_delay(failure_count) ==
    IF failure_count = 0 THEN 0
    ELSE min2(base_retry_delay * (2 ^ (failure_count - 1)), max_retry_delay)

\* a manager that gives up once max_failures is reached
ConnectionManager_should_retry_until_max(failure_count, last_failure_time, now) ==
    IF failure_count = 0 THEN TRUE
    ELSE /\ failure_count < max_failures
         /\ now - last_failure_time
               >= ConnectionManager_calculate_retry_delay(failure_count)

ConnectionManager_should_retry(failure_count, last_failure_time, now) ==
    IF failure_count = 0 THEN TRUE
    ELSE now - last_failure_time
            >= ConnectionManager_calculate_retry_delay(failure_count)

\* get_connection called at time now; pyodbc.connect returns or raises
\* after `took` seconds
ConnectionManager_get_connection(failure_count, last_failure_time, now, connects, took) ==
    IF ~ConnectionManager_should_retry(failure_count, last_failure_time, now)
    THEN [failure_count |-> failure_count, last_failure_time |-> last_failure_time,
          now |-> now, last |-> "refused"]
    ELSE IF connects
    THEN [failure_count |-> 0, last_failure_time |-> 0, now |-> now + took,
          last |-> "connected"]
    ELSE [failure_count |-> failure_count + 1, last_failure_time |-> now + took,
          now |-> now + took, last |-> "failed"]

\* ConnectionManager.__init__
NoConn == [failure_count |-> 0, last_failure_time |-> 0, now |-> 0, last |-> "none"]

SvcIdle ==
    /\ sqlc = NoSqlc
    /\ conn = NoConn

AuxIdle ==
    /\ ids = NoIds
    /\ urlrun = NoUrlRun
    /\ keyrun = NoKeyRun
    /\ ext = NoExt
    /\ SvcIdle

(***************************************************************************)
(* Step-cache operations (specification SpecCache).                        *)
(***************************************************************************)
InitCache ==
    /\ AuxIdle
    /\ rows \in InitialTables
    /\ kv = {}
    /\ op = NoOp
    /\ PipelineIdle
    /\ DataIdle

PgGet ==
    \E u \in URIs, s \in StepNames, up \in BOOLEAN :
        LET r == PostgresCache_get(rows, u, s, up) IN
        /\ op' = [NoOp EXCEPT !.name = "get", !.backend = "postgres", !.uri = u,
                              !.step = s, !.up = up, !.ok = r.ret.hit, !.ret = r.ret,
                              !.raised = r.raised]
        /\ UNCHANGED <<rows, kv, pipeVars, auxVars, dataVars>>

PgSet ==
    \E u \in URIs, s \in StepNames, p \in Payloads, up \in BOOLEAN :
        LET r == PostgresCache_set(rows, u, s, p, up) IN
        /\ rows' = r.rows
        /\ op' = [NoOp EXCEPT !.name = "set", !.backend = "postgres", !.uri = u,
                              !.step = s, !.payload = p, !.up = up, !.ok = r.ok,
                              !.existed = (pg_entries(rows, u, s) # {}),
                              !.raised = r.raised]
        /\ UNCHANGED <<kv, pipeVars, auxVars, dataVars>>

PgDelete ==
    \E u \in URIs, s \in StepNames, up \in BOOLEAN :
        LET r == PostgresCache_delete(rows, u, s, up) IN
        /\ rows' = r.rows
        /\ op' = [NoOp EXCEPT !.name = "delete", !.backend = "postgres", !.uri = u,
                              !.step = s, !.up = up, !.ok = r.ok,
                              !.raised = r.raised]
        /\ UNCHANGED <<kv, pipeVars, auxVars, dataVars>>

UriLists == UNION { [1..n -> URIs] : n \in 0..MaxBatch }

PgGetMany ==
    \E us \in UriLists, s \in StepNames, up \in BOOLEAN :
        LET r == PostgresCache_get_many(rows, us, s, up) IN
        /\ op' = [NoOp EXCEPT !.name = "get_many", !.backend = "postgres", !.uris = us,
                              !.step = s, !.up = up, !.ok = TRUE, !.many = r.ret,
                              !.raised = r.raised]
        /\ UNCHANGED <<rows, kv, pipeVars, auxVars, dataVars>>

\* the payloads of a batch alternate between the two of a pair
BatchPayloads ==
    { <<cache_success_payload("'e1'"), cache_success_payload("'e2'")>>,
      <<cache_error_payload("'api_error'", "'empty'"), cache_success_payload("'e1'")>> }

PgSetMany ==
    \E us \in UriLists, s \in StepNames, p \in BatchPayloads, up \in BOOLEAN :
        LET batch == [ i \in 1..Len(us) |-> <<us[i], s, p[(i % 2) + 1]>> ]
            r == PostgresCache_set_many(rows, batch, up) IN
        /\ rows' = r.rows
        /\ op' = [NoOp EXCEPT !.name = "set_many", !.backend = "postgres", !.uris = us,
                              !.step = s, !.payload = p[1], !.up = up, !.ok = r.ok,
                              !.many = batch, !.raised = r.raised]
        /\ UNCHANGED <<kv, pipeVars, auxVars, dataVars>>

RdGet ==
    \E u \in URIs, s \in StepNames, up \in BOOLEAN :
        LET r == RedisCache_get(kv, u, s, up) IN
        /\ op' = [NoOp EXCEPT !.name = "get", !.backend = "redis", !.uri = u,
                              !.step = s, !.up = up, !.ok = r.ret.hit, !.ret = r.ret,
                              !.raised = r.raised]
        /\ UNCHANGED <<rows, kv, pipeVars, auxVars, dataVars>>

RdSet ==
    \E u \in URIs, s \in StepNames, p \in Payloads, up \in BOOLEAN :
        LET r == RedisCache_set(kv, u, s, p, up) IN
        /\ kv' = r.kv
        /\ op' = [NoOp EXCEPT !.name = "set", !.backend = "redis", !.uri = u,
                              !.step = s, !.payload = p, !.up = up, !.ok = r.ok,
                              !.raised = r.raised]
        /\ UNCHANGED <<rows, pipeVars, auxVars, dataVars>>

RdDelete ==
    \E u \in URIs, s \in StepNames, up \in BOOLEAN :
        LET r == RedisCache_delete(kv, u, s, up) IN
        /\ kv' = r.kv
        /\ op' = [NoOp EXCEPT !.name = "delete", !.backend = "redis", !.uri = u,
                              !.step = s, !.up = up, !.ok = r.ok,
                              !.raised = r.raised]
        /\ UNCHANGED <<rows, pipeVars, auxVars, dataVars>>

NextCache == PgGet \/ PgSet \/ PgDelete \/ PgGetMany \/ PgSetMany

SpecCache == InitCache /\ [][NextCache]_vars

(***************************************************************************)
(* The key-value backend alone (specification SpecRedis).                  *)
(***************************************************************************)
InitRedis ==
    /\ AuxIdle
    /\ rows = {}
    /\ kv = {}
    /\ op = NoOp
    /\ PipelineIdle
    /\ DataIdle

NextRedis == RdGet \/ RdSet \/ RdDelete

SpecRedis == InitRedis /\ [][NextRedis]_vars

(***************************************************************************)
(* BertFactorsEnricher used directly, on a Redis cache (specification      *)
(* SpecBert).                                                              *)
(***************************************************************************)
\* what the key space can hold for the step when a process starts: per
\* identifier nothing, cached factors, or an error entry
BertEntries ==
    { NoDict, bert_factors, cache_error_payload("'missing_text'", EmptyEntities) }

BertStores ==
    { { [key |-> generate_cache_key(<<u, BERT, DefaultEnv>>).key,
         value |-> create_cache_value(BERT, f[u])] :
          u \in { x \in URIs : f[x] # NoDict } } :
      f \in [URIs -> BertEntries] }

InitBert ==
    /\ AuxIdle
    /\ rows = {}
    /\ kv \in BertStores
    /\ op = NoOp
    /\ PipelineIdle
    /\ DataIdle

\* BertFactorsEnricher(...) (bert_factors_enricher.py:60, base.py:66-105)
BertNew ==
    /\ op' = [NoOp EXCEPT !.name = "bert.new", !.step = BERT,
                          !.raised = ~abc_instantiable(BertFactorsEnricher_methods)]
    /\ UNCHANGED <<rows, kv, pipeVars, auxVars, dataVars>>

\* BertFactorsEnricher.enrich on one item (bert_factors_enricher.py:325-352)
BertEnrich ==
    \E u \in URIs, has_text \in BOOLEAN, available \in BOOLEAN,
       models_ok \in BOOLEAN, up \in BOOLEAN :
        LET r == BertFactorsEnricher_enrich(kv, u, has_text, available, models_ok, up)
        IN /\ kv' = r.kv
           /\ op' = [NoOp EXCEPT !.name = "bert.enrich", !.backend = "redis",
                                 !.uri = u, !.step = BERT, !.up = up,
                                 !.text = has_text, !.avail = available,
                                 !.existed = RedisCache_get(kv, u, BERT, TRUE).ret.hit,
                                 !.computed = r.computed, !.ok = r.applied]
           /\ UNCHANGED <<rows, pipeVars, auxVars, dataVars>>

NextBert == BertNew \/ BertEnrich

SpecBert == InitBert /\ [][NextBert]_vars

(***************************************************************************)
(* Pipeline.run (specification Spec): up to MaxRuns runs of one pipeline   *)
(* against one database; a run can be interrupted (the process killed)     *)
(* at any point, which loses everything but the database and the files.    *)
(***************************************************************************)
Init ==
    /\ AuxIdle
    /\ rows \in InitialTables
    /\ kv = {}
    /\ op = NoOp
    /\ cfg \in [data : DataSets, dbpedia : BOOLEAN, handler : BOOLEAN,
                cache : { Pipeline_initialize_components(FALSE).cache }]
    /\ files = {} /\ run = 0 /\ pc = "idle" /\ force = FALSE
    /\ src = 1 /\ all_items = << >> /\ ingest = NoIngest /\ enr = NoEnr
    /\ work = NoWork /\ results = NoResults /\ prev = NoPrev
    /\ DataIdle

\* self.enrichers after _initialize_components
enrichers == IF cfg.dbpedia THEN {DBPEDIA} ELSE {}

\* Pipeline.run is called (pipeline.py:254-282)
StartRun ==
    /\ pc = "idle" /\ run < MaxRuns
    /\ run' = run + 1
    /\ force' = FALSE
    /\ pc' = "ingest" /\ src' = 1 /\ all_items' = << >>
    /\ ingest' = NoIngest /\ enr' = NoEnr /\ work' = NoWork /\ results' = NoResults
    /\ UNCHANGED <<rows, kv, op, cfg, files, prev, dataVars, auxVars>>

\* _run_ingestion after one source whose get_data raised or not: the except
\* clause logs, and the loop goes on to the next source
Pipeline_after_source_aborting(k, raised) ==
    IF raised \/ k = Len(SourceNames)
    THEN [pc |-> "ingested", src |-> Len(SourceNames) + 1]
    ELSE [pc |-> "ingest", src |-> k + 1]

Pipeline_after_source(k, raised) ==
    [pc |-> IF k = Len(SourceNames) THEN "ingested" ELSE "ingest", src |-> k + 1]

\* what a source can find in the raw-source cache when a run reaches it:
\* nothing, or a payload of an earlier run
FoundEntries == { NoEntry, [gz |-> Written(1, 0), meta |-> Written(1, Epoch)] }

\* the ways self.data_manager.get_data(source_config) can go for one source
IngestRuns ==
    { DataManager_get_data_run(found, NoTTL, FALSE, Epoch, 1, outcome, pf, mf) :
        found \in FoundEntries, outcome \in FetchOutcomes,
        pf \in PutFaults, mf \in PutFaults }

\* _run_ingestion, one source (pipeline.py:387-422).  list(get_data(...))
\* raises when the provider, the raw-cache write or the processor raises;
\* the raw-source cache directory itself is followed in SpecData and
\* SpecManager, here the entry the source finds is any of FoundEntries.
IngestSource ==
    /\ pc = "ingest" /\ src <= Len(SourceNames)
    /\ \E g \in IngestRuns, avail \in BOOLEAN :
        LET get_data_raises == g.raised
            put_raises_here == g.raised /\ g.log[Len(g.log)] = "cache.put"
            after == Pipeline_after_source(src, get_data_raises)
        IN
        /\ src' = after.src
        /\ pc' = after.pc
        /\ IF get_data_raises
           THEN /\ ingest' = [ingest EXCEPT
                                !.failed_sources = @ \cup {src},
                                !.put_failed = IF put_raises_here
                                               THEN @ \cup {src} ELSE @]
                /\ UNCHANGED <<all_items, work>>
           ELSE LET items == DataManager_get_data(cfg.data, src)
                    uris == uris_of(items)
                    fully_processed_uris ==
                        Pipeline_get_fully_processed_uris(cfg.cache, rows, uris, enrichers, avail)
                IN /\ all_items' = all_items \o Pipeline_filter_items(items, fully_processed_uris)
                   /\ work' = [work EXCEPT !.cache_calls =
                                 IF cfg.cache /\ Len(uris) > 0
                                 THEN @ \cup {"get_many"} ELSE @]
                   /\ ingest' = [ingest EXCEPT
                                   !.seen = @ \cup { uris[i] : i \in 1..Len(uris) },
                                   !.filter_uris = uris,
                                   !.filter_avail = avail,
                                   !.filter_ret = fully_processed_uris,
                                   !.filtered = TRUE]
    /\ UNCHANGED <<rows, kv, op, cfg, files, run, force, enr, results, prev, dataVars, auxVars>>

\* Pipeline.run with no new items (pipeline.py:290-326); the argument
\* force_deployment is read here and nowhere else, so its value is drawn here
RunNoNewItems ==
    /\ pc = "ingested" /\ all_items = << >>
    /\ force' \in BOOLEAN
    /\ IF force' /\ cfg.handler /\ files # {}
       THEN \E ok \in SUBSET files :
              /\ work' = [work EXCEPT !.deployed = ok, !.failed = files \ ok]
              /\ results' = [returned |-> TRUE,
                             success |-> Pipeline_run_deployment(TRUE, files, ok),
                             total_processed |-> 0]
       ELSE /\ results' = [returned |-> TRUE, success |-> TRUE, total_processed |-> 0]
            /\ UNCHANGED work
    /\ pc' = "done"
    /\ UNCHANGED <<rows, kv, op, cfg, files, run, src, all_items, ingest, enr, prev, dataVars, auxVars>>

\* _run_enrichment reaches enricher.enrich, which makes its batch lookup
\* (pipeline.py:438-457, base.py:38-41)
EnrichLookup ==
    /\ pc = "ingested" /\ all_items # << >>
    /\ \E avail \in BOOLEAN :
        IF enrichers = {} \/ ~avail
        THEN /\ pc' = "generate"
             /\ work' = [work EXCEPT !.genq = sources_of(all_items)]
             /\ UNCHANGED enr
        ELSE /\ pc' = "enrich"
             /\ enr' = [cached_data |->
                            IF cfg.cache
                            THEN PostgresCache_get_many(rows, uris_of(all_items), DBPEDIA,
                                                        Reachable).ret
                            ELSE << >>,
                        i |-> 1, results |-> << >>,
                        lookup |-> { u \in URIs : pg_entries(rows, u, DBPEDIA) # {} },
                        input |-> all_items, failed |-> {}]
             /\ work' = [work EXCEPT !.cache_calls =
                           IF cfg.cache THEN @ \cup {"get_many"} ELSE @]
    /\ UNCHANGED <<rows, kv, op, cfg, files, run, force, src, all_items, ingest, results, prev, dataVars, auxVars>>

\* Enricher.enrich, one item (base.py:45-64)
EnrichItem ==
    /\ pc = "enrich" /\ enr.i <= Len(all_items)
    /\ \E outcome \in Outcomes :
        LET item == all_items[enr.i]
            r == Enricher_enrich_item(cfg.cache, rows, item, enr.cached_data, outcome)
            res == enr.results \o r.appended
        IN /\ rows' = r.rows
           /\ work' = [work EXCEPT
                         !.computed = IF r.computed THEN @ \cup {item.uri} ELSE @,
                         !.writes = @ \cup r.writes,
                         !.cache_calls = IF r.writes # {} THEN @ \cup {"set"} ELSE @,
                         !.errors = @ \cup r.errors,
                         !.genq = IF enr.i = Len(all_items) THEN sources_of(res) ELSE @]
           /\ enr' = [enr EXCEPT !.i = @ + 1, !.results = res,
                                 !.failed = IF r.failed THEN @ \cup {enr.i} ELSE @]
           /\ all_items' = IF enr.i = Len(all_items) THEN res ELSE all_items
           /\ pc' = IF enr.i = Len(all_items) THEN "generate" ELSE "enrich"
    /\ UNCHANGED <<kv, op, cfg, files, run, force, src, ingest, results, prev, dataVars, auxVars>>

\* the smallest source index of a non-empty set
first_source(S) == CHOOSE k \in S : \A j \in S : k <= j

\* _run_rdf_generation, one source (pipeline.py:489-517); save raising
\* ends the method with no generated file (pipeline.py:528-537)
GenerateSource ==
    /\ pc = "generate" /\ work.genq # {}
    /\ \E save_ok \in BOOLEAN :
        LET k == first_source(work.genq)
            g == Pipeline_generate_source(cfg.cache, rows, all_items, k, save_ok)
        IN /\ rows' = g.rows
           /\ files' = IF g.saved THEN files \cup {k} ELSE files
           /\ work' = IF g.saved
                      THEN [work EXCEPT !.saved = @ \cup {k}, !.generated = @ \cup {k},
                                        !.marked = @ \cup g.marked,
                                        !.writes = @ \cup { <<u, MARKER>> : u \in g.marked },
                                        !.cache_calls = IF g.marked # {}
                                                        THEN @ \cup {"set"} ELSE @,
                                        !.genq = @ \ {k}]
                      ELSE [work EXCEPT !.generated = {}, !.generr = TRUE, !.genq = {},
                                        !.marked = @ \cup g.marked]
           /\ pc' = IF g.saved /\ work.genq # {k} THEN "generate" ELSE "deploy"
    /\ UNCHANGED <<kv, op, cfg, run, force, src, all_items, ingest, enr, results, prev, dataVars, auxVars>>

\* Step 4 and the final statistics (pipeline.py:341-380)
Deploy ==
    /\ pc = "deploy"
    /\ IF cfg.handler
       THEN \E ok \in SUBSET work.generated :
              /\ work' = [work EXCEPT !.deployed = ok, !.failed = work.generated \ ok]
              /\ results' = [returned |-> TRUE,
                             success |-> Pipeline_run_deployment(TRUE, work.generated, ok),
                             total_processed |-> Len(all_items)]
       ELSE /\ results' = [returned |-> TRUE, success |-> TRUE,
                           total_processed |-> Len(all_items)]
            /\ UNCHANGED work
    /\ pc' = "done"
    /\ UNCHANGED <<rows, kv, op, cfg, files, run, force, src, all_items, ingest, enr, prev, dataVars, auxVars>>

\* Pipeline.run has returned and the process ends
FinishRun ==
    /\ pc = "done"
    /\ pc' = "idle"
    /\ prev' = [ended |-> "completed", success |-> results.success,
                ingested_all |-> (ingest.failed_sources = {}),
                seen |-> ingest.seen, marked |-> work.marked, writes |-> work.writes]
    /\ UNCHANGED <<rows, kv, op, cfg, files, run, force, src, all_items, ingest, enr,
                   work, results, dataVars, auxVars>>

\* the process is killed during a run
Interrupt ==
    /\ pc \in {"ingest", "ingested", "enrich", "generate", "deploy"}
    /\ pc' = "idle"
    /\ prev' = [ended |-> "interrupted", success |-> FALSE,
                ingested_all |-> FALSE,
                seen |-> ingest.seen, marked |-> work.marked, writes |-> work.writes]
    /\ UNCHANGED <<rows, kv, op, cfg, files, run, force, src, all_items, ingest, enr,
                   work, results, dataVars, auxVars>>

Next ==
    \/ StartRun \/ IngestSource \/ RunNoNewItems \/ EnrichLookup \/ EnrichItem
    \/ GenerateSource \/ Deploy \/ FinishRun \/ Interrupt

Spec == Init /\ [][Next]_vars

(***************************************************************************)
(* Enricher.enrich alone (specification SpecEnrich): one pass over a       *)
(* batch, with the batch lookup answered by any CacheInterface, so that    *)
(* hits, misses, payloads the step cannot apply and failing writes mix.    *)
(***************************************************************************)
\* payloads a lookup can hand to apply_cached_data; the last has no "data"
CachedPayloads ==
    { cache_success_payload(ExtractedEntities),
      cache_error_payload("'api_error'", EmptyEntities),
      marker_payload("'s1'") }

\* the dicts cache.get_many(uris, step) can return
CachedMaps(uris) ==
    UNION { [D -> CachedPayloads] : D \in SUBSET { uris[i] : i \in 1..Len(uris) } }

\* the batch handed to enrich: the records of all sources
all_records(data) ==
    DataManager_get_data(data, 1) \o DataManager_get_data(data, 2)

InitEnrich ==
    /\ AuxIdle
    /\ rows = {} /\ kv = {} /\ op = NoOp
    /\ cfg \in [data : DataSets, dbpedia : {TRUE}, handler : {FALSE}, cache : {TRUE}]
    /\ files = {} /\ run = 1 /\ pc = "enrich" /\ force = FALSE
    /\ src = 1 /\ all_items = all_records(cfg.data) /\ ingest = NoIngest
    /\ enr \in { [cached_data |-> c, i |-> 1, results |-> << >>,
                  lookup |-> DOMAIN c, input |-> all_items, failed |-> {}] :
                 c \in CachedMaps(uris_of(all_items)) }
    /\ work = NoWork /\ results = NoResults /\ prev = NoPrev
    /\ DataIdle

NextEnrich == EnrichItem

SpecEnrich == InitEnrich /\ [][NextEnrich]_vars

(***************************************************************************)
(* The raw-source cache shared by the threads of one process               *)
(* (specification SpecData).  put is followed write by write; get and     *)
(* clear run while the calling thread can take the lock.                   *)
(***************************************************************************)
InitData ==
    /\ AuxIdle
    /\ rows = {} /\ kv = {} /\ op = NoOp
    /\ PipelineIdle
    /\ DataIdle

Tick ==
    /\ clock < Epoch + MaxTicks
    /\ clock' = clock + 1
    /\ UNCHANGED <<cacheVars, pipeVars, auxVars, disk, lock, th, dop, puts>>

\* put: with self._lock (data_cache.py:133-135)
PutBegin ==
    \E t \in Threads, k \in Keys :
        /\ th[t].pc = "idle" /\ lock_available(lock, t)
        /\ puts.started < MaxPuts
        /\ th' = [th EXCEPT ![t] = [pc |-> "payload", key |-> k, n |-> puts.started + 1]]
        /\ lock' = t
        /\ puts' = [puts EXCEPT !.started = @ + 1]
        /\ UNCHANGED <<cacheVars, pipeVars, auxVars, disk, clock, dop>>

\* put: the payload is written (data_cache.py:138-139)
PutPayload ==
    \E t \in Threads, fault \in PutFaults :
        /\ th[t].pc = "payload"
        /\ disk' = with_entry(disk, th[t].key,
                            DataCache_put_payload(entry_of(disk, th[t].key), th[t].n, fault))
        /\ th' = [th EXCEPT ![t].pc = IF fault = "none" THEN "metadata" ELSE "cleanup"]
        /\ UNCHANGED <<cacheVars, pipeVars, auxVars, clock, lock, dop, puts>>

\* put: the metadata is written and, if that works, put returns
\* (data_cache.py:141-151)
PutMetadata ==
    \E t \in Threads, fault \in PutFaults :
        /\ th[t].pc = "metadata"
        /\ disk' = with_entry(disk, th[t].key,
                            DataCache_put_metadata(entry_of(disk, th[t].key), th[t].n,
                                                   clock, fault))
        /\ IF fault = "none"
           THEN /\ th' = [th EXCEPT ![t] = NoThread]
                /\ lock' = 0
                /\ puts' = [puts EXCEPT !.done = @ \cup {th[t].n}]
                /\ dop' = [NoDop EXCEPT !.name = "put", !.key = th[t].key,
                                        !.n = th[t].n, !.now = clock]
           ELSE /\ th' = [th EXCEPT ![t].pc = "cleanup"]
                /\ UNCHANGED <<lock, puts, dop>>
        /\ UNCHANGED <<cacheVars, pipeVars, auxVars, clock>>

\* put: the except clause removes the files and re-raises (data_cache.py:153-159)
PutCleanup ==
    \E t \in Threads :
        /\ th[t].pc = "cleanup"
        /\ disk' = with_entry(disk, th[t].key,
                            DataCache_put_cleanup(entry_of(disk, th[t].key)))
        /\ th' = [th EXCEPT ![t] = NoThread]
        /\ lock' = 0
        /\ dop' = [NoDop EXCEPT !.name = "put", !.key = th[t].key, !.n = th[t].n,
                                !.now = clock, !.raised = TRUE]
        /\ UNCHANGED <<cacheVars, pipeVars, auxVars, clock, puts>>

\* get (data_cache.py:79-121)
Get ==
    \E t \in Threads, k \in Keys, ttl \in TTLs, ignore_expiry \in BOOLEAN :
        /\ th[t].pc = "idle" /\ lock_available(lock, t)
        /\ LET r == DataCache_get(entry_of(disk, k), ttl, ignore_expiry, clock) IN
           dop' = [NoDop EXCEPT !.name = "get", !.key = k, !.ttl = ttl,
                                !.ignore_expiry = ignore_expiry, !.now = clock,
                                !.hit = r.hit, !.n = r.n, !.raised = r.raised,
                                !.finished = (r.n \in puts.done)]
        /\ UNCHANGED <<cacheVars, pipeVars, auxVars, disk, clock, lock, th, puts>>

\* clear (data_cache.py:161-177)
Clear ==
    \E t \in Threads, source_name \in DSources \cup {NoSource} :
        /\ th[t].pc = "idle" /\ lock_available(lock, t)
        /\ disk' = DataCache_clear(disk, source_name)
        /\ dop' = [NoDop EXCEPT !.name = "clear", !.source = source_name, !.now = clock]
        /\ UNCHANGED <<cacheVars, pipeVars, auxVars, clock, lock, th, puts>>

\* DataManager.get_data for one source (data_manager.py:65-128)
GetData ==
    \E k \in { <<s, 1>> : s \in DSources }, ttl \in TTLs, skip_download \in BOOLEAN,
       outcome \in FetchOutcomes :
      \E pf \in IF outcome = "fetch_raises" THEN {"none"} ELSE PutFaults :
        \E mf \in IF pf = "none" /\ outcome # "fetch_raises"
                   THEN PutFaults ELSE {"none"} :
        /\ \A t \in Threads : th[t].pc = "idle"
        /\ lock = 0
        /\ LET r == DataManager_get_data_run(entry_of(disk, k), ttl, skip_download, clock,
                                             puts.started + 1, outcome, pf, mf)
               fetched == Len(r.log) >= 3
           IN /\ fetched => puts.started < MaxPuts
              /\ disk' = with_entry(disk, k, r.entry)
              /\ puts' = IF fetched
                         THEN [started |-> puts.started + 1,
                               done |-> IF r.entry.gz.n = puts.started + 1
                                        THEN puts.done \cup {puts.started + 1}
                                        ELSE puts.done]
                         ELSE puts
              /\ dop' = [NoDop EXCEPT !.name = "get_data", !.key = k, !.ttl = ttl,
                                      !.skip_download = skip_download, !.now = clock,
                                      !.raised = r.raised, !.log = r.log,
                                      !.records = r.records,
                                      !.hit = DataCache_get(entry_of(disk, k), ttl, skip_download,
                                                            clock).hit]
        /\ UNCHANGED <<cacheVars, pipeVars, auxVars, clock, lock, th>>

NextData ==
    \/ Tick \/ PutBegin \/ PutPayload \/ PutMetadata \/ PutCleanup
    \/ Get \/ Clear

SpecData == InitData /\ [][NextData]_vars

(***************************************************************************)
(* DataCache.get on a cache directory found in any state: files left by    *)
(* an earlier process, by another process or by hand (specification        *)
(* SpecFiles).                                                             *)
(***************************************************************************)
\* what a payload file and a metadata file can hold
PayloadFiles == { Absent, Broken(1), Written(1, 0) }
MetadataFiles == { Absent, Broken(1), NoTimestamp } \cup { Written(1, ts) : ts \in Times }

InitFiles ==
    /\ AuxIdle
    /\ rows = {} /\ kv = {} /\ op = NoOp
    /\ PipelineIdle
    /\ \E k \in Keys, gz \in PayloadFiles, meta \in MetadataFiles :
          disk = with_entry(EmptyDisk, k, [gz |-> gz, meta |-> meta])
    /\ clock \in Times /\ lock = 0
    /\ th = [ t \in Threads |-> NoThread ]
    /\ dop = NoDop
    /\ puts = [started |-> 0, done |-> {}]

NextFiles == Tick \/ Get

SpecFiles == InitFiles /\ [][NextFiles]_vars

(***************************************************************************)
(* DataManager.get_data called by one thread, as _run_ingestion does       *)
(* (specification SpecManager).                                            *)
(***************************************************************************)
NextManager == Tick \/ GetData \/ Clear

SpecManager == InitData /\ [][NextManager]_vars

(***************************************************************************)
(* Properties.                                                             *)

(***************************************************************************)
(* The pipeline constructed while the database of the step cache cannot    *)
(* be reached (specification SpecNoCache): PostgresCache(...) raised, the  *)
(* database holds what earlier runs left.                                  *)
(***************************************************************************)
InitNoCache ==
    /\ AuxIdle
    /\ rows \in { t \in InitialTables : t = {} \/ Cardinality(t) = 2 * NumURIs }
    /\ kv = {}
    /\ op = NoOp
    /\ cfg \in [data : DataSets, dbpedia : BOOLEAN, handler : BOOLEAN,
                cache : { Pipeline_initialize_components(TRUE).cache }]
    /\ files = {} /\ run = 0 /\ pc = "idle" /\ force = FALSE
    /\ src = 1 /\ all_items = << >> /\ ingest = NoIngest /\ enr = NoEnr
    /\ work = NoWork /\ results = NoResults /\ prev = NoPrev
    /\ DataIdle

SpecNoCache == InitNoCache /\ [][Next]_vars

(***************************************************************************)
(* URLTextEnricher used directly, on a Redis cache (specification          *)
(* SpecUrlText).                                                           *)
(***************************************************************************)
InitUrlText ==
    /\ AuxIdle
    /\ rows = {} /\ kv = {} /\ op = NoOp
    /\ PipelineIdle
    /\ DataIdle

\* URLTextEnricher(cache=...) is called
UrlNew ==
    /\ op' = [NoOp EXCEPT !.name = "url.new", !.step = URLTEXT,
                          !.raised = ~abc_instantiable(URLTextEnricher_methods)]
    /\ UNCHANGED <<rows, kv, pipeVars, dataVars, auxVars>>

\* the batches a pass is given: lists of distinct reviews
UrlBatches ==
    { b \in UNION { [1..n -> URIs] : n \in 1..MaxBatch } :
        \A i \in 1..Len(b) : \A j \in 1..Len(b) : i # j => b[i] # b[j] }

\* the extraction results the passes are run with: success, an exception,
\* a retryable and a non-retryable failure
PassResults ==
    { r \in ExtractResults : r.error_type \in {"none", "timeout", "http"} }

\* one enrich_batch pass (url_text_enricher.py:166-199)
UrlEnrichBatch ==
    \E batch \in UrlBatches, up \in BOOLEAN :
    \E has_url \in [1..Len(batch) -> BOOLEAN],
       extractions \in [1..Len(batch) -> PassResults] :
        LET r == URLTextEnricher_enrich_batch(kv, batch, has_url, extractions, up)
        IN /\ kv' = r.kv
           /\ urlrun' = [batch |-> batch, calls |-> r.calls, failed |-> r.failed,
                         up |-> up]
           /\ op' = [NoOp EXCEPT !.name = "url.enrich_batch", !.backend = "redis",
                                 !.step = URLTEXT, !.up = up]
           /\ UNCHANGED <<rows, pipeVars, dataVars, ids, keyrun, ext, svcVars>>

NextUrlText == UrlNew \/ UrlEnrichBatch

SpecUrlText == InitUrlText /\ [][NextUrlText]_vars

(***************************************************************************)
(* The raw-cache key of a source under two configurations (specification   *)
(* SpecKeys): the payload is put under the first and looked up under the   *)
(* second, which differs from the first in the fields `changed` and, when  *)
(* `reversed`, has its key fields in the opposite order.                   *)
(***************************************************************************)
InitKeys ==
    /\ rows = {} /\ kv = {} /\ op = NoOp
    /\ PipelineIdle
    /\ DataIdle
    /\ ids = NoIds /\ urlrun = NoUrlRun /\ ext = NoExt /\ SvcIdle
    /\ \E s \in {<<"a">>, <<"a", "b">>}, c \in BaseConfigs :
          keyrun = [NoKeyRun EXCEPT !.source = s, !.c1 = c]

\* at most one content field and any of the network parameters change
ChangedSets ==
    { n \cup c : n \in SUBSET NetworkFields,
                 c \in { x \in SUBSET ContentFields : Cardinality(x) <= 1 } }

PutThenGet ==
    /\ ~keyrun.done
    /\ \E changed \in ChangedSets, reversed \in BOOLEAN :
        LET c2 == with_changed(keyrun.c1, changed)
            fields1 == get_cache_key_fields(keyrun.c1)
            fields2 == IF reversed THEN reversed_items(get_cache_key_fields(c2))
                       ELSE get_cache_key_fields(c2)
            key1 == DataCache_key_of_fields(keyrun.source, fields1)
            key2 == DataCache_key_of_fields(keyrun.source, fields2)
            w == DataCache_put(entry_of(disk, key1), 1, clock, "none", "none")
            d == with_entry(disk, key1, w.entry)
        IN /\ disk' = d
           /\ keyrun' = [keyrun EXCEPT
                           !.c2 = c2, !.changed = changed, !.reversed = reversed,
                           !.key1 = key1, !.key2 = key2,
                           !.hit = DataCache_get(entry_of(d, key2), NoTTL, FALSE,
                                                 clock).hit,
                           !.done = TRUE]
    /\ UNCHANGED <<cacheVars, pipeVars, clock, lock, th, dop, puts, ids, urlrun, ext,
                   svcVars>>

NextKeys == PutThenGet

SpecKeys == InitKeys /\ [][NextKeys]_vars

(***************************************************************************)
(* One _extract_url_text call, attempt by attempt (specification           *)
(* SpecExtract).                                                           *)
(***************************************************************************)
InitExtract ==
    /\ rows = {} /\ kv = {} /\ op = NoOp
    /\ PipelineIdle
    /\ DataIdle
    /\ ids = NoIds /\ urlrun = NoUrlRun /\ keyrun = NoKeyRun /\ SvcIdle
    /\ \E m \in 0..MaxRetries :
          ext = [NoExt EXCEPT !.max_retries = m, !.status = "running"]

\* for attempt in range(self.max_retries + 1): one pass
Attempt ==
    /\ ext.status = "running" /\ ext.attempt <= ext.max_retries
    /\ \E outcome \in AttemptOutcomes :
        LET r == URLTextEnricher_extract_attempt(ext.max_retries, ext.attempt, outcome)
        IN ext' = [ext EXCEPT !.attempt = @ + 1, !.status = r.next,
                              !.log = Append(@, outcome), !.result = r.result]
    /\ UNCHANGED <<cacheVars, pipeVars, dataVars, ids, urlrun, keyrun, svcVars>>

NextExtract == Attempt

SpecExtract == InitExtract /\ [][NextExtract]_vars

(***************************************************************************)
(* run_query calls against an unchanging database (specification SpecSql). *)
(***************************************************************************)
InitSql ==
    /\ rows = {} /\ kv = {} /\ op = NoOp
    /\ PipelineIdle
    /\ DataIdle
    /\ AuxIdle

SqlRunQuery ==
    /\ \E f \in QueryFiles, p \in QueryParams, use_cache \in BOOLEAN :
        LET r == run_query(sqlc.cache, sqlc.now, "pipeline", f, p, use_cache)
        IN sqlc' = [sqlc EXCEPT
                      !.cache = r.cache,
                      !.call = [name |-> "run_query", filename |-> f, params |-> p,
                                use_cache |-> use_cache, rows |-> r.rows,
                                executed |-> r.executed]]
    /\ UNCHANGED <<cacheVars, pipeVars, dataVars, ids, urlrun, keyrun, ext, conn>>

\* POST /cache/clear
SqlClearCache ==
    /\ sqlc' = [sqlc EXCEPT !.cache = sql_clear_cache(sqlc.cache).cache,
                            !.call = [NoSqlCall EXCEPT !.name = "clear_cache"]]
    /\ UNCHANGED <<cacheVars, pipeVars, dataVars, ids, urlrun, keyrun, ext, conn>>

\* time passes: a second less than the TTL, or the TTL
SqlAdvance ==
    /\ \E d \in {CACHE_TTL - 1, CACHE_TTL} :
        /\ sqlc.now + d <= MaxSqlClock
        /\ sqlc' = [sqlc EXCEPT !.now = @ + d, !.call = NoSqlCall]
    /\ UNCHANGED <<cacheVars, pipeVars, dataVars, ids, urlrun, keyrun, ext, conn>>

NextSql == SqlRunQuery \/ SqlClearCache \/ SqlAdvance

SpecSql == InitSql /\ [][NextSql]_vars

(***************************************************************************)
(* get_connection calls while time passes (specification SpecIsql).        *)
(***************************************************************************)
InitIsql ==
    /\ rows = {} /\ kv = {} /\ op = NoOp
    /\ PipelineIdle
    /\ DataIdle
    /\ AuxIdle

GetConnection ==
    /\ \E connects \in BOOLEAN, took \in 0..1 :
        /\ conn.now + took <= MaxIsqlClock
        /\ connects \/ conn.failure_count < MaxFailureCount
        /\ conn' = ConnectionManager_get_connection(conn.failure_count,
                       conn.last_failure_time, conn.now, connects, took)
    /\ UNCHANGED <<cacheVars, pipeVars, dataVars, ids, urlrun, keyrun, ext, sqlc>>

IsqlTick ==
    /\ conn.now < MaxIsqlClock
    /\ conn' = [conn EXCEPT !.now = @ + 1, !.last = "tick"]
    /\ UNCHANGED <<cacheVars, pipeVars, dataVars, ids, urlrun, keyrun, ext, sqlc>>

NextIsql == GetConnection \/ IsqlTick

SpecIsql == InitIsql /\ [][NextIsql]_vars

(***************************************************************************)
(* Identifier generation for a pair of claim reviews (specification        *)
(* SpecIds).                                                               *)
(***************************************************************************)
InitIds ==
    /\ rows = {} /\ kv = {} /\ op = NoOp
    /\ PipelineIdle
    /\ DataIdle
    /\ \E a \in ClaimReviews, b \in ClaimReviews :
          ids = [NoIds EXCEPT !.a = a, !.b = b]
    /\ urlrun = NoUrlRun
    /\ keyrun = NoKeyRun
    /\ ext = NoExt
    /\ SvcIdle

\* both reviews are asked for their uri, and their claims for theirs
ComputeUris ==
    /\ ~ids.done
    /\ ids' = [ids EXCEPT !.uri_a = CanonicalClaimReview_uri(ids.a),
                          !.uri_b = CanonicalClaimReview_uri(ids.b),
                          !.claim_a = CanonicalClaim_uri(ids.a.text),
                          !.claim_b = CanonicalClaim_uri(ids.b.text),
                          !.done = TRUE]
    /\ UNCHANGED <<cacheVars, pipeVars, dataVars, urlrun, keyrun, ext, svcVars>>

NextIds == ComputeUris

SpecIds == InitIds /\ [][NextIds]_vars

(***************************************************************************)
\* the identifiers of a list of identifiers
set_of(uris) == { uris[i] : i \in 1..Len(uris) }

\* the items of a list that carry identifier u
items_with(items, u) == { j \in 1..Len(items) : items[j].uri = u }

\* C1: the ingestion filter computes exactly the identifiers of the candidate
\* list that have a processed marker and an entry for every enabled step,
\* and ingestion passes on exactly the items outside that set.
C1_FilterExact ==
    (ingest.filtered /\ pc \in {"ingest", "ingested"}) =>
        /\ ingest.filter_ret =
             { u \in set_of(ingest.filter_uris) :
                 /\ pg_entries(rows, u, MARKER) # {}
                 /\ \A s \in enrichers : pg_entries(rows, u, s) # {} }
        /\ \A j \in 1..Len(all_items) : all_items[j].uri \notin ingest.filter_ret

C3_CacheHitSkipsComputation ==
    \A u \in enr.lookup :
        items_with(enr.input, u) # {} =>
            /\ u \notin work.computed
            /\ <<u, DBPEDIA>> \notin work.writes

\* C4: during and after an enrich pass the results are index-aligned with
\* the input: same length, position j holds the record that was at j.
C4_IndexAligned ==
    /\ pc = "enrich" =>
         /\ Len(enr.results) = enr.i - 1
         /\ \A j \in 1..Len(enr.results) :
              /\ enr.results[j].oid = enr.input[j].oid
              /\ enr.results[j].uri = enr.input[j].uri
    /\ (pc \in {"generate", "deploy", "done"} /\ enr.i > 0) =>
         /\ Len(all_items) = Len(enr.input)
         /\ \A j \in 1..Len(all_items) :
              /\ all_items[j].oid = enr.input[j].oid
              /\ all_items[j].uri = enr.input[j].uri

\* a finished pass over two items: one computed after a miss, one whose
\* cached payload made apply_cached_data raise
C4_Witness ==
    /\ pc = "generate" /\ Len(enr.input) = 2
    /\ work.computed # {}
    /\ \E u \in DOMAIN enr.cached_data :
         /\ "data" \notin DOMAIN enr.cached_data[u]
         /\ items_with(enr.input, u) # {}

\* C5: after a run that completed successfully and marked every identifier
\* it ingested, a second run over the same data leaves no item after the
\* filter, computes nothing, saves no file and, unless forced, deploys nothing.
C5_SecondRunRedoesNothing ==
    (/\ run = 2 /\ prev.ended = "completed" /\ prev.success /\ prev.ingested_all
     /\ prev.seen \subseteq prev.marked
     /\ pc \notin {"idle", "ingest"} /\ ingest.failed_sources = {}) =>
        /\ all_items = << >>
        /\ work.computed = {}
        /\ work.saved = {}
        /\ ~force => work.deployed = {}

\* C6: after an interrupted run, the next run computes no step for an
\* identifier whose step entry was written, and whose marker was not,
\* before the interruption.
C6_ResumeSkipsPresentEntries ==
    (run = 2 /\ prev.ended = "interrupted") =>
        \A u \in URIs :
            (<<u, DBPEDIA>> \in prev.writes /\ u \notin prev.marked) =>
                u \notin work.computed

\* C7: with the backend reachable, set returns true and an immediately
\* following get of the same identifier and step returns the payload set.
C7_RoundTrip ==
    [][ (/\ op.name = "set" /\ op.up
         /\ op'.name = "get" /\ op'.up
         /\ op'.uri = op.uri /\ op'.step = op.step) =>
            (op.ok /\ op'.ret = Hit(op.payload)) ]_vars

\* C8: a reachable set leaves exactly one entry for its (identifier, step),
\* holding the payload just written; on an existing entry it does not fail.
C8_LastWriteWins ==
    (op.name = "set" /\ op.up) =>
        /\ op.existed => op.ok
        /\ \A r \in pg_entries(rows, op.uri, op.step) :
             json_loads(r.payload) = op.payload
        /\ Cardinality(pg_entries(rows, op.uri, op.step)) <= 1

\* C9: get_many returns exactly the listed identifiers that have an entry
\* for the step, each with the payload of that entry.
C9_GetManyExact ==
    (op.name = "get_many" /\ op.up) =>
        /\ DOMAIN op.many = { u \in set_of(op.uris) : pg_entries(rows, u, op.step) # {} }
        /\ \A u \in DOMAIN op.many :
             \A r \in pg_entries(rows, u, op.step) : op.many[u] = json_loads(r.payload)

\* C10: a call during which the backend fails raises nothing, reports a
\* miss, an empty map or false, and leaves the stored entries unchanged.
C10_FailureIsSwallowed ==
    [][ (/\ ~op'.up
         /\ op'.name \in {"get", "set", "get_many", "set_many"}
         /\ op'.name \in {"get_many", "set_many"} => Len(op'.uris) > 0) =>
            /\ ~op'.raised
            /\ rows' = rows
            /\ op'.name = "get" => op'.ret = Miss
            /\ op'.name = "get_many" => op'.many = << >>
            /\ op'.name \in {"set", "set_many"} => ~op'.ok ]_vars

\* a batch write of two entries failed over a table that holds entries
C10_Witness ==
    /\ op.name = "set_many" /\ ~op.up /\ Len(op.uris) = 2
    /\ ~op.ok /\ rows # {}


\* a step in which a DataCache.get call returns
get_step == dop' # dop /\ dop'.name = "get"

\* the files a successful put n left at time ts, untouched since
is_put(entry) ==
    /\ entry.gz.kind = "written" /\ entry.meta.kind = "written"
    /\ entry.gz.n = entry.meta.n

\* C11: on an entry that put wrote at time t0, a get with a ttl returns the
\* bytes of that put whenever now - t0 <= ttl, a miss whenever
\* now - t0 > ttl and ignore_expiry is false, and the bytes whenever
\* ignore_expiry is true.
C11_TTLDecides ==
    [][ (get_step /\ dop'.ttl # NoTTL /\ is_put(entry_of(disk, dop'.key))) =>
          LET e == entry_of(disk, dop'.key)
              age == clock - e.meta.ts
              returns_bytes == dop'.hit /\ dop'.n = e.gz.n
          IN /\ (age <= dop'.ttl => returns_bytes)
             /\ ((age > dop'.ttl /\ ~dop'.ignore_expiry) => ~dop'.hit)
             /\ (dop'.ignore_expiry => returns_bytes) ]_vars

\* a step in which a DataCache.put call raises to its caller
put_raises == dop' # dop /\ dop'.name = "put" /\ dop'.raised

\* C12: when a put raises, neither the payload file nor the metadata file of
\* its key is on disk, whichever write failed and whatever the key held before.
C12_BothOrNeither ==
    [][ put_raises => entry_of(disk', dop'.key) = NoEntry ]_vars

\* the second put raised after the first had succeeded, and neither file
\* of its key is on disk
C12_Witness ==
    /\ dop.name = "put" /\ dop.raised
    /\ dop.n = 2 /\ 1 \in puts.done
    /\ entry_of(disk, dop.key) = NoEntry

\* C13: a get by any thread returns a miss or the bytes of a put that had
\* finished successfully, and those bytes lie next to the metadata of the
\* same put, whether or not ignore_expiry is set.
C13_NoTornRead ==
    [][ (get_step /\ dop'.hit) =>
          /\ dop'.n \in puts.done
          /\ is_put(entry_of(disk, dop'.key))
          /\ entry_of(disk, dop'.key).gz.n = dop'.n ]_vars

\* a get with ignore_expiry returned the bytes of put 1 while another put
\* had been started and had failed
C13_Witness ==
    /\ dop.name = "get" /\ dop.hit /\ dop.ignore_expiry /\ dop.n = 1
    /\ puts.started = 2 /\ puts.done = {1}
    /\ \A t \in Threads : th[t].pc = "idle"


\* files that do not make up a readable entry: no payload, no metadata,
\* metadata that is not JSON, a payload that does not decompress
bad_files(entry) ==
    \/ entry.gz.kind \in {"absent", "broken"}
    \/ entry.meta.kind \in {"absent", "broken"}

\* C14: get never raises, and on a missing payload, missing metadata,
\* unreadable or malformed metadata or a payload that does not decompress it
\* returns a miss.
C14_BadFilesMiss ==
    [][ get_step =>
          /\ ~dop'.raised
          /\ bad_files(entry_of(disk, dop'.key)) => ~dop'.hit ]_vars


\* a step in which a DataCache.clear call returns
clear_step == dop' # dop /\ dop'.name = "clear"

\* every get on the entry is a miss, whatever ttl and ignore_expiry it passes
always_miss(entry, now) ==
    \A ttl \in TTLs, ignore_expiry \in BOOLEAN :
        ~DataCache_get(entry, ttl, ignore_expiry, now).hit

\* C15: after clear(s) every get on source s is a miss for every config and
\* the entries of every other source are as they were, names with
\* underscores included; after clear(None) every get is a miss.
C15_ClearBySource ==
    [][ clear_step =>
          LET s == dop'.source IN
          \A k \in Keys :
              /\ (s = NoSource \/ k[1] = s) => always_miss(entry_of(disk', k), clock')
              /\ (s # NoSource /\ k[1] # s) => entry_of(disk', k) = entry_of(disk, k) ]_vars


\* a step in which a DataManager.get_data call ends
get_data_step == dop' # dop /\ dop'.name = "get_data"

\* the positions of a call in the log of a get_data
calls(log, name) == { i \in 1..Len(log) : log[i] = name }

\* C16: on a cache hit get_data does not fetch; on a miss without
\* skip_download it fetches exactly once and puts the bytes before the
\* processor runs; with skip_download it never fetches, uses an entry even
\* when it is expired, and yields no records when there is no entry.
C16_FetchOnlyOnMiss ==
    [][ get_data_step =>
          LET log == dop'.log
              e == entry_of(disk, dop'.key)
          IN /\ dop'.hit => calls(log, "fetch") = {}
             /\ (~dop'.hit /\ ~dop'.skip_download) =>
                   /\ Cardinality(calls(log, "fetch")) = 1
                   /\ \A p \in calls(log, "process") :
                        \E f \in calls(log, "fetch"), w \in calls(log, "cache.put") :
                            f < w /\ w < p /\ is_put(entry_of(disk', dop'.key))
             /\ dop'.skip_download =>
                   /\ calls(log, "fetch") = {}
                   /\ is_put(e) =>
                        /\ calls(log, "process") # {}
                        /\ ~dop'.raised => dop'.records = e.gz.n
                   /\ e = NoEntry =>
                        /\ calls(log, "process") = {}
                        /\ dop'.records = 0 /\ ~dop'.raised ]_vars

\* get_data with skip_download yielded the records of an entry older than
\* its ttl, which an earlier get_data had fetched and stored
C16_Witness ==
    /\ dop.name = "get_data" /\ dop.skip_download /\ dop.hit
    /\ dop.now = clock /\ dop.records > 0
    /\ dop.records \in puts.done
    /\ dop.ttl # NoTTL
    /\ DataCache_is_expired(entry_of(disk, dop.key), DataCache_effective_ttl(dop.ttl), clock)


\* the records of source k in the configured data
records_of(data, k) == { i \in 1..Len(data) : data[i][2] = k }

\* C17: a source whose get_data raised (a failed raw-cache write included)
\* contributes no items, every other source is still ingested, with each of
\* its records that has no processed marker passed on, and a run that ends
\* has returned its results record.
C17_SourceFailureIsLocal ==
    /\ pc = "ingested" =>
         /\ ingest.put_failed \subseteq ingest.failed_sources
         /\ \A j \in 1..Len(all_items) :
                all_items[j].source \notin ingest.failed_sources
         /\ \A k \in SourceIdx \ ingest.failed_sources :
              \A i \in records_of(cfg.data, k) :
                  pg_entries(rows, cfg.data[i][1], MARKER) = {} =>
                      \E j \in 1..Len(all_items) :
                          /\ all_items[j].uri = cfg.data[i][1]
                          /\ all_items[j].source = k
    /\ pc = "done" => results.returned

\* a run ended and returned its results although the raw-cache write of the
\* first source failed; the items of the second source were processed
C17_Witness ==
    /\ pc = "done" /\ results.returned
    /\ ingest.put_failed = {1} /\ ingest.failed_sources = {1}
    /\ records_of(cfg.data, 1) # {}
    /\ results.total_processed > 0
    /\ \A j \in 1..Len(all_items) : all_items[j].source = 2


\* a step in which a BertFactorsEnricher.enrich call on one item returns
bert_step == op' # op /\ op'.name = "bert.enrich"

\* C18: a pass over an uncached item with empty claim text leaves a
\* success=false entry for (identifier, step) without calling the
\* computation, and a pass over an item that has an entry does not call it.
C18_MissingInputRecorded ==
    [][ (bert_step /\ op'.avail /\ op'.up) =>
          /\ (~op'.existed /\ ~op'.text) =>
                LET e == RedisCache_get(kv', op'.uri, BERT, TRUE).ret IN
                /\ ~op'.computed
                /\ e.hit /\ ~payload_success(e.payload)
          /\ op'.existed => ~op'.computed ]_vars


\* _run_enrichment found the enricher's service unavailable: the probe was
\* made, the enricher was skipped and RDF generation is next
probe_failed == pc = "generate" /\ enrichers # {} /\ enr.i = 0

\* C19: when the service of a step is unavailable, the batch pass leaves a
\* success=false entry for every item that had none, computes nothing and
\* returns every item unchanged.
C19_UnavailableRecorded ==
    probe_failed =>
        /\ work.computed = {}
        /\ \A j \in 1..Len(all_items) :
              /\ all_items[j].entities = NoEntities
              /\ pg_entries(rows, all_items[j].uri, DBPEDIA) # {}


\* C20: for every item whose computation raised, the pass went on: a
\* success=false entry with an error type was written for (identifier, step),
\* the item in the results carries the entity fields it came with (no
\* partial results of the failed computation), and the items after it were
\* processed.
C20_FailureLeavesDefault ==
    /\ \A j \in enr.failed :
          j <= Len(enr.results) =>
             /\ <<enr.results[j].uri, DBPEDIA, "'api_error'">> \in work.errors
             /\ enr.results[j].entities = enr.input[j].entities
    /\ (pc = "generate" /\ enr.i > 0) => Len(all_items) = Len(enr.input)

\* the identity fields of a claim review, as the strings that enter its uri
identity_fields(r) ==
    << normalize_text(r.text), or_empty(r.label),
       review_url_normalized_for_id(r.review_url),
       or_empty(r.date_published), or_empty(r.language) >>

differing_fields(r1, r2) ==
    { i \in 1..5 : identity_fields(r1)[i] # identity_fields(r2)[i] }

\* C21 as stated: equal identity fields give equal identifiers, one changed
\* field gives a different identifier, and no two distinct field tuples
\* share an identifier
C21_IdentifiersSeparate ==
    ids.done =>
        /\ differing_fields(ids.a, ids.b) = {} => ids.uri_a = ids.uri_b
        /\ Cardinality(differing_fields(ids.a, ids.b)) = 1 => ids.uri_a # ids.uri_b
        /\ differing_fields(ids.a, ids.b) # {} => ids.uri_a # ids.uri_b

\* C21: equal identity fields give equal identifiers, one changed field
\* gives a different identifier, and two reviews share an identifier
\* exactly when their identity fields concatenate to the same string;
\* claims share an identifier exactly when their normalized texts are equal
C21_IdentifiersByConcatenation ==
    ids.done =>
        /\ differing_fields(ids.a, ids.b) = {} => ids.uri_a = ids.uri_b
        /\ Cardinality(differing_fields(ids.a, ids.b)) = 1 => ids.uri_a # ids.uri_b
        /\ ids.uri_a = ids.uri_b
              <=> ClaimReview_identifier(ids.a) = ClaimReview_identifier(ids.b)
        /\ ids.claim_a = ids.claim_b
              <=> normalize_text(ids.a.text) = normalize_text(ids.b.text)

C21_Witness ==
    /\ ids.done
    /\ differing_fields(ids.a, ids.b) = {5}
    /\ ids.a # ids.b
    /\ ids.uri_a # ids.uri_b

\* C22: a pipeline whose step cache could not be reached at construction is
\* constructed all the same; its completeness filter skips nothing, every
\* ingested item is computed by the enricher when it runs, no cache call is
\* made and the table is left alone
C22_RunsWithoutCache ==
    /\ [](/\ ~Pipeline_initialize_components(TRUE).raised
          /\ ~cfg.cache
          /\ work.cache_calls = {} /\ work.writes = {} /\ work.marked = {}
          /\ ingest.filter_ret = {}
          /\ pc \in {"ingest", "ingested"} => set_of(uris_of(all_items)) = ingest.seen
          /\ pc = "enrich" =>
                work.computed = { enr.input[j].uri : j \in 1..(enr.i - 1) }
          /\ (pc \in {"generate", "deploy", "done"} /\ enr.input # << >>) =>
                work.computed = set_of(uris_of(enr.input)))
    /\ [][rows' = rows]_vars

C22_Witness ==
    /\ ~cfg.cache
    /\ pc = "done"
    /\ Len(enr.input) = MaxItems
    /\ \A j \in 1..Len(enr.input) :
          /\ pg_entries(rows, enr.input[j].uri, MARKER) # {}
          /\ pg_entries(rows, enr.input[j].uri, DBPEDIA) # {}
    /\ work.computed = set_of(uris_of(enr.input))
    /\ work.saved # {}

\* a step in which an enrich_batch pass of URLTextEnricher returns
url_pass == op'.name = "url.enrich_batch"

\* C23: every entry written for a failed computation is stored with
\* success false and has an error member, and every entry that reads
\* success true holds a result; here for the entries the pass wrote for
\* reviews whose extraction failed, the cache being reachable.
C23_FailureFlagged ==
    [][ (url_pass /\ urlrun'.up) =>
          \A u \in urlrun'.failed :
              LET e == RedisCache_get(kv', u, URLTEXT, TRUE).ret IN
              /\ e.hit
              /\ ~payload_success(e.payload)
              /\ "error" \in DOMAIN e.payload ]_vars

\* C25: one enrich pass over a non-empty batch makes exactly one get_many
\* call, for all identifiers of the batch, and no per-item get call
C25_OneBatchLookup ==
    [][ url_pass =>
          /\ Cardinality({ i \in 1..Len(urlrun'.calls) :
                              urlrun'.calls[i][1] = "get_many" }) = 1
          /\ \A i \in 1..Len(urlrun'.calls) : urlrun'.calls[i][1] # "get" ]_vars

\* C24: two configurations of a source that differ only in timeout,
\* rate_limit_delay, max_retries or batch_size, or in the order of their
\* key fields, have the same raw-cache key, and a put under one is a hit
\* under the other; configurations with the same key fields have the same key
C24_KeyIgnoresNetworkFields ==
    keyrun.done =>
        /\ keyrun.changed \subseteq NetworkFields =>
              keyrun.key1 = keyrun.key2 /\ keyrun.hit
        /\ set_of_seq(get_cache_key_fields(keyrun.c1))
              = set_of_seq(get_cache_key_fields(keyrun.c2))
              <=> keyrun.key1 = keyrun.key2
        /\ keyrun.hit <=> keyrun.key1 = keyrun.key2

C24_Witness ==
    /\ keyrun.done
    /\ keyrun.changed = NetworkFields
    /\ keyrun.reversed
    /\ keyrun.c1.provider_type = "github"
    /\ keyrun.c1 # keyrun.c2
    /\ keyrun.key1 = keyrun.key2 /\ keyrun.hit

\* an attempt after which the loop may go on
may_retry(outcome) ==
    \/ outcome.kind = "exception"
    \/ outcome.kind = "failure" /\ is_retryable(outcome.error_type)

\* C26: _extract_url_text makes at most max_retries + 1 fetch attempts and
\* never raises; it goes on only after a retryable failure or an exception,
\* returns at the first success and returns the failure right after a
\* non-retryable one; while it runs an attempt is left.
C26_ExtractReturns ==
    /\ ext.status # "raised"
    /\ Len(ext.log) <= ext.max_retries + 1
    /\ ext.status = "running" => Len(ext.log) <= ext.max_retries
    /\ \A i \in 1..(Len(ext.log) - 1) : may_retry(ext.log[i])
    /\ ext.status = "returned" =>
          LET last == ext.log[Len(ext.log)] IN
          /\ last.kind = "success" => ext.result = last
          /\ last.kind = "failure" =>
                /\ ext.result = last
                /\ ~may_retry(last) \/ Len(ext.log) = ext.max_retries + 1
          /\ last.kind = "exception" =>
                ext.result.kind = "failure" /\ Len(ext.log) = ext.max_retries + 1
    /\ \A i \in 1..Len(ext.log) :
          (ext.log[i].kind = "success" \/ ~may_retry(ext.log[i])) =>
              i = Len(ext.log) /\ ext.status = "returned"

\* C27: for the outcome of the extraction calls that an _process_item call
\* met, the item it returns equals the item apply_cached_data makes of an
\* un-enriched copy and the payload the call handed to the cache
C27_CachedEqualsComputed ==
    [][ (pc = "enrich" /\ enr'.i = enr.i + 1
            /\ enr.input[enr.i].uri \notin DOMAIN enr.cached_data) =>
          LET item == enr.input[enr.i] IN
          \E outcome \in Outcomes :
              LET r == DBpediaEnricher_process_item(cfg.cache, rows, item, outcome) IN
              /\ enr'.results[enr.i] = r.item
              /\ (enr.i \in enr'.failed) = r.failed
              /\ DBpediaEnricher_apply_cached_data(item, r.payload).item = r.item ]_vars

C29_ServesRequestedParams ==
    (sqlc.call.name = "run_query" /\ sqlc.call.use_cache)
        => sqlc.call.rows = session_execute(sqlc.call.filename, sqlc.call.params)

====
